---- MODULE Spec2Model ----
(***************************************************************************)
(* Gazette extraction pipeline of relation_SpaCy:                          *)
(*   ORG_SECUNDARY.py  line classifier, structural segmenter, relations    *)
(*   segmenter.py      summary/body split and span-driven body slicing     *)
(*   body_refind.py    normalizers, ALL-CAPS gate, monotone re-anchoring   *)
(*                                                                         *)
(* Two text representations are used.                                      *)
(*  - The pipeline (Spec, SpecAnchor) sees a text as a sequence of atoms:  *)
(*    a word (with the blank that follows it) or the newline "\n".  Every  *)
(*    atom is one position wide, so an offset is an index into the atom    *)
(*    sequence, 0-based and half-open as in the source.                    *)
(*  - The normalizers and the gate (SpecNorm, SpecGate) see a text as a    *)
(*    sequence of characters.                                              *)
(***************************************************************************)
EXTENDS Integers, Sequences, FiniteSets, TLC

VARIABLES
    text,          \* doc.text, a sequence of atoms
    pc,            \* position in the pipeline
    lines,         \* detect_entities: line_offsets(doc.text), each with its text
    i,             \* detect_entities: line index
    state,         \* detect_entities: OUTSIDE / IN_ORG / IN_SECTION
    header_start,  \* detect_entities: temp header block start (None = -1)
    header_end,    \* detect_entities: temp header block end (None = -1)
    j,             \* detect_entities: header look-ahead index
    spans,         \* detect_entities: spans in emission order
    trace,         \* per main-loop iteration: what the iteration did
    ents,          \* doc.ents
    rel_i,         \* build_relations: index of the next entity
    current_org,   \* build_relations: last ORG seen
    current_sub,   \* build_relations: last ORG_SECUNDARIA seen since that ORG
    relations,     \* doc._.relations
    cut,           \* build_sumario_and_body: split offset
    sumario,       \* build_sumario_and_body: Sumario(text, ents, relations)
    seg_items,     \* build_sumario_and_body: BodyItems sliced from the spans
    blueprint,     \* build_body_via_sumario_spacy: ordered Sumario blueprint
    org_cands,     \* gather_candidates("ORG"): phrase -> candidates
    sub_cands,     \* gather_candidates("ORG_SECUNDARIA")
    doc_cands,     \* gather_candidates("DOC")
    cursor,        \* global cursor through the body
    assigned_orgs, \* blueprint entries with their body anchor
    sec_i,         \* index of the section loop
    sections,      \* per anchored ORG: section_end and its assignments
    body_items,    \* build_body_via_sumario_spacy: result
    n_text,        \* _build_normalized_body_with_map: text, a sequence of characters
    n_i,           \* _build_normalized_body_with_map: i
    out_chars,     \* _build_normalized_body_with_map: out_chars, a list of strings
    idx_map,       \* _build_normalized_body_with_map: idx_map
    last_was_space, \* _build_normalized_body_with_map: last_was_space
    npc,           \* "loop", "done" (buffer normalized), "matched", "gathered"
                   \* or "IndexError"
    n_phrase,      \* _normalize_for_match of a roster string
    n_hits,        \* gather_candidates: the (orig_start, orig_end) of the matches
    gate_span,     \* gather_candidates: original text of a candidate
    gate_label,    \* gather_candidates: label
    gate_out       \* gather_candidates: "pending", "accepted" or "rejected"

segVars == <<lines, i, state, header_start, header_end, j, spans, trace>>
relVars == <<ents, rel_i, current_org, current_sub, relations>>
sumVars == <<cut, sumario, seg_items>>
normVars == <<n_text, n_i, out_chars, idx_map, last_was_space, npc, n_phrase, n_hits>>
gateVars == <<gate_span, gate_label, gate_out>>
chrVars == <<normVars, gateVars>>
ancVars == <<blueprint, org_cands, sub_cands, doc_cands, cursor, assigned_orgs, sec_i,
             sections, body_items>>

None == -1

\* ---------------------------------------------------------------- sequences
\* 0-based, half-open access as in Python
At(s, k) == s[k + 1]
Slice(s, a, b) == SubSeq(s, a + 1, b)

RECURSIVE Concat(_)
Concat(ss) == IF ss = <<>> THEN <<>> ELSE Head(ss) \o Concat(Tail(ss))

SeqsUpTo(S, n) == UNION {[1..k -> S] : k \in 0..n}

Min(a, b) == IF a < b THEN a ELSE b

\* ---------------------------------------------------------------- atoms
NL == "\n"

\* str.upper() on a word atom
Upper(w) ==
    CASE w = "Secretaria" -> "SECRETARIA"
      [] w = "Camara"     -> "CAMARA"
      [] w = "Aviso"      -> "AVISO"
      [] w = "Edital"     -> "EDITAL"
      [] w = "Contrato"   -> "CONTRATO"
      [] w = "de"         -> "DE"
      [] w = "sociedade"  -> "SOCIEDADE"
      [] w = "texto"      -> "TEXTO"
      [] w = "n.º"        -> "N.º"
      [] OTHER            -> w

\* str.strip(",.;:-") on a word atom
StripPunct(w) ==
    CASE w = "SECRETARIA," -> "SECRETARIA"
      [] w = "CAMARA,"     -> "CAMARA"
      [] OTHER             -> w

\* unicodedata.normalize("NFKD", w).encode("ascii", "ignore").decode() on a word
\* atom
AsciiFold(w) ==
    CASE w = "CÂMARA" -> "CAMARA"
      [] OTHER        -> w

\* str.endswith((",", "-", "\u2013")) on a word atom
EndsWithJoinPunct(w) == w \in {"SECRETARIA,", "CAMARA,"}


\* ---------------------------------------------------------------- characters
\* The characters a text is made of: "A", "S" upper-case ASCII letters, "a" a
\* lower-case ASCII letter, "ß" (sharp s: a Latin-1 letter whose upper()
\* is "SS"), U+010C / U+010D (C with caron, upper and lower: letters outside
\* Latin-1), U+0301 (combining acute accent, dropped by _strip_diacritics),
\* "1" a digit, "-", ".", " " and "\n".
SharpS == "ß"
CaronUpper == "C-caron"
CaronLower == "c-caron"
CombiningAcute == "combining-acute"

\* str.isalpha
isalpha(ch) == ch \in {"A", "S", "C", "a", "c", SharpS, CaronUpper, CaronLower}

\* str.isspace
isspace(ch) == ch \in {" ", NL}

\* str.isalnum, and \w of re
isalnum(ch) == isalpha(ch) \/ ch = "1"

\* [A-Z] and [A-Za-z] of re
IsAsciiUpper(ch) == ch \in {"A", "S", "C"}
IsAsciiLetter(ch) == ch \in {"A", "S", "C", "a", "c"}

\* _caps_token_rx: [A-Za-z\u00C0-\u00FF]
InCapsTokenRx(ch) == ch \in {"A", "S", "C", "a", "c", SharpS}

\* str.upper of one character, a string
upper(ch) ==
    CASE ch = "a"        -> <<"A">>
      [] ch = "c"        -> <<"C">>
      [] ch = SharpS     -> <<"S", "S">>
      [] ch = CaronLower -> <<CaronUpper>>
      [] OTHER           -> <<ch>>

\* NFKD of one character with the combining marks dropped, a string
Decomposed(ch) ==
    CASE ch = CombiningAcute -> <<>>
      [] ch = CaronUpper     -> <<"C">>
      [] ch = CaronLower     -> <<"c">>
      [] OTHER               -> <<ch>>

RECURSIVE _strip_diacritics(_)
_strip_diacritics(str) ==
    IF str = <<>> THEN <<>> ELSE Decomposed(Head(str)) \o _strip_diacritics(Tail(str))

\* str.upper
RECURSIVE StrUpper(_)
StrUpper(str) == IF str = <<>> THEN <<>> ELSE upper(Head(str)) \o StrUpper(Tail(str))

\* ---------------------------------------------------------------- ALL-CAPS gate
\* _is_all_caps_token
RECURSIVE AllCapsFrom(_, _, _)
AllCapsFrom(tok, n, has_alpha) ==
    IF n > Len(tok) THEN has_alpha
    ELSE IF isalpha(tok[n])
         THEN IF <<tok[n]>> # upper(tok[n]) THEN FALSE
              ELSE AllCapsFrom(tok, n + 1, TRUE)
    ELSE AllCapsFrom(tok, n + 1, has_alpha)

_is_all_caps_token(tok) == AllCapsFrom(tok, 1, FALSE)

\* re.split(r"\s+", s.strip()): the maximal runs of non-blank characters
RECURSIVE SplitWs(_, _)
SplitWs(str, cur) ==
    IF str = <<>> THEN (IF cur = <<>> THEN <<>> ELSE <<cur>>)
    ELSE IF isspace(Head(str))
         THEN (IF cur = <<>> THEN <<>> ELSE <<cur>>) \o SplitWs(Tail(str), <<>>)
    ELSE SplitWs(Tail(str), Append(cur, Head(str)))

\* re.search(r"\n\s*\n", s)
HasBlankLine(str) ==
    \E a, b \in 1..Len(str) :
        /\ a < b /\ str[a] = NL /\ str[b] = NL
        /\ \A m \in (a + 1)..(b - 1) : isspace(str[m])

_passes_all_caps_gate(original_span) ==
    /\ ~HasBlankLine(original_span)
    /\ \A n \in 1..Len(SplitWs(original_span, <<>>)) :
          LET tok == SplitWs(original_span, <<>>)[n]
          IN ~((\E m \in 1..Len(tok) : InCapsTokenRx(tok[m])) /\ ~_is_all_caps_token(tok))

\* the gate step of gather_candidates for one candidate
GateAccepts(label, original_span) ==
    ~(label \in {"ORG", "ORG_SECUNDARIA"} /\ ~_passes_all_caps_gate(original_span))

\* the letters of a word atom, by case, followed by the blank that ends it
CharsOf(w) ==
    CASE w = NL -> <<NL>>
      [] w \in {"Secretaria", "Aviso", "Edital", "Contrato"} -> <<"A", "a", " ">>
      [] w \in {"de", "sociedade", "texto", "n.º"} -> <<"a", " ">>
      [] OTHER -> <<"A", " ">>

\* the characters of a sequence of atoms
RECURSIVE Spell(_)
Spell(atoms) == IF atoms = <<>> THEN <<>> ELSE CharsOf(Head(atoms)) \o Spell(Tail(atoms))


\* ---------------------------------------------------------------- normalizers
\* str.isalpha of a string
StrIsAlpha(str) == str # <<>> /\ \A n \in 1..Len(str) : isalpha(str[n])

\* re.sub(r"([A-Za-z])-\s+([A-Za-z])", r"\1\2", s): leftmost matches, none
\* overlapping another
RECURSIVE SkipSpaces(_, _)
SkipSpaces(str, n) ==
    IF n < Len(str) /\ isspace(At(str, n)) THEN SkipSpaces(str, n + 1) ELSE n

RECURSIVE JoinHyphens(_, _)
JoinHyphens(str, n) ==
    IF n >= Len(str) THEN <<>>
    ELSE LET q == SkipSpaces(str, n + 2)
         IN IF /\ IsAsciiLetter(At(str, n))
               /\ n + 1 < Len(str) /\ At(str, n + 1) = "-"
               /\ q > n + 2
               /\ q < Len(str) /\ IsAsciiLetter(At(str, q))
            THEN <<At(str, n), At(str, q)>> \o JoinHyphens(str, q + 1)
            ELSE <<At(str, n)>> \o JoinHyphens(str, n + 1)

\* \b of re between positions n - 1 and n
WordBoundary(str, n) ==
    LET before == n > 0 /\ isalnum(At(str, n - 1))
        after == n < Len(str) /\ isalnum(At(str, n))
    IN before # after

\* re.sub(r"(?<=\b[A-Z])\.(?=[A-Z]\b)", "", s)
AcronymDot(str, n) ==
    /\ At(str, n) = "."
    /\ n >= 1 /\ IsAsciiUpper(At(str, n - 1)) /\ WordBoundary(str, n - 1)
    /\ n + 1 < Len(str) /\ IsAsciiUpper(At(str, n + 1)) /\ WordBoundary(str, n + 2)

RECURSIVE DropAcronymDots(_, _)
DropAcronymDots(str, n) ==
    IF n >= Len(str) THEN <<>>
    ELSE (IF AcronymDot(str, n) THEN <<>> ELSE <<At(str, n)>>)
         \o DropAcronymDots(str, n + 1)

\* re.sub(r"\s+", " ", s)
RECURSIVE CollapseWs(_, _)
CollapseWs(str, n) ==
    IF n >= Len(str) THEN <<>>
    ELSE IF isspace(At(str, n))
         THEN <<" ">> \o CollapseWs(str, SkipSpaces(str, n))
    ELSE <<At(str, n)>> \o CollapseWs(str, n + 1)

\* str.strip(chars)
RECURSIVE LStrip(_, _)
LStrip(str, chars) ==
    IF str # <<>> /\ Head(str) \in chars THEN LStrip(Tail(str), chars) ELSE str

RECURSIVE RStrip(_, _)
RStrip(str, chars) ==
    IF str # <<>> /\ str[Len(str)] \in chars
    THEN RStrip(SubSeq(str, 1, Len(str) - 1), chars) ELSE str

Strip(str, chars) == RStrip(LStrip(str, chars), chars)

EdgePunct == {" ", ",", ".", ";", ":", "-"}

_normalize_for_match(str) ==
    LET s1 == _strip_diacritics(str)
        s2 == JoinHyphens(s1, 0)
        s3 == DropAcronymDots(s2, 0)
        s4 == Strip(CollapseWs(s3, 0), {" ", NL})
    IN Strip(StrUpper(s4), EdgePunct)

\* One iteration of the while loop of _build_normalized_body_with_map, by the
\* branch it takes.  st holds i, out_chars, idx_map and last_was_space.
JoinsHyphen(str, st) ==
    LET q == SkipSpaces(str, st.i + 1)
    IN /\ At(str, st.i) = "-" /\ st.i > 0 /\ isalpha(At(str, st.i - 1))
       /\ q < Len(str) /\ isalpha(At(str, q))

ch_norm(str, st) == StrUpper(_strip_diacritics(<<At(str, st.i)>>))

DropsDot(str, st) ==
    /\ ch_norm(str, st) = <<".">> /\ st.out_chars # <<>>
    /\ LET prev == st.out_chars[Len(st.out_chars)]
           nxt == IF st.i + 1 < Len(str) THEN upper(At(str, st.i + 1)) ELSE <<>>
       IN /\ StrIsAlpha(prev) /\ prev = StrUpper(prev)
          /\ StrIsAlpha(nxt) /\ nxt = StrUpper(nxt)

Branch(str, st) ==
    IF JoinsHyphen(str, st) THEN "join"
    ELSE IF isspace(At(str, st.i)) THEN "space"
    ELSE IF DropsDot(str, st) THEN "dot"
    ELSE "append"

Iterate(str, st) ==
    CASE Branch(str, st) = "join" ->
            [st EXCEPT !.i = SkipSpaces(str, st.i + 1)]
      [] Branch(str, st) = "space" ->
            IF st.last_was_space THEN [st EXCEPT !.i = st.i + 1]
            ELSE [i |-> st.i + 1,
                  out_chars |-> Append(st.out_chars, <<" ">>),
                  idx_map |-> Append(st.idx_map, st.i),
                  last_was_space |-> TRUE]
      [] Branch(str, st) = "dot" ->
            [st EXCEPT !.i = st.i + 1, !.last_was_space = FALSE]
      [] OTHER ->
            [i |-> st.i + 1,
             out_chars |-> Append(st.out_chars, ch_norm(str, st)),
             idx_map |-> Append(st.idx_map, st.i),
             last_was_space |-> FALSE]

RECURSIVE Loop(_, _)
Loop(str, st) == IF st.i < Len(str) THEN Loop(str, Iterate(str, st)) ELSE st

\* the pair ("".join(out_chars), idx_map)
_build_normalized_body_with_map(str) ==
    LET st == Loop(str, [i |-> 0, out_chars |-> <<>>, idx_map |-> <<>>,
                         last_was_space |-> FALSE])
    IN [norm |-> Concat(st.out_chars), idx_map |-> st.idx_map]


\* ---------------------------------------------------------------- phrase matches
\* nlp.make_doc on a normalized string: the runs of non-blank characters, each
\* with its offset (the splitting of punctuation by the tokenizer is left out)
RECURSIVE TokensAt(_, _)
TokensAt(norm, n) ==
    IF n >= Len(norm) THEN <<>>
    ELSE IF isspace(At(norm, n)) THEN TokensAt(norm, n + 1)
    ELSE LET ends == {m \in (n + 1)..Len(norm) : m = Len(norm) \/ isspace(At(norm, m))}
             end == CHOOSE m \in ends : \A x \in ends : m <= x
         IN <<[text |-> Slice(norm, n, end), idx |-> n]>> \o TokensAt(norm, end)

\* the matches of a PhraseMatcher holding the one pattern make_doc(phrase), an
\* empty phrase is not added: norm_start and norm_end of each
PhraseMatches(norm_body, phrase) ==
    LET toks == TokensAt(norm_body, 0)
        pat == TokensAt(phrase, 0)
        RECURSIVE From(_)
        From(n) ==
            IF pat = <<>> \/ n + Len(pat) - 1 > Len(toks) THEN <<>>
            ELSE (IF \A m \in 1..Len(pat) : toks[n + m - 1].text = pat[m].text
                  THEN <<[norm_start |-> toks[n].idx,
                          norm_end |-> toks[n + Len(pat) - 1].idx
                                       + Len(toks[n + Len(pat) - 1].text)]>>
                  ELSE <<>>)
                 \o From(n + 1)
    IN From(1)

_word_boundary_ok(norm_text, start, end) ==
    LET left_ok == start = 0 \/ ~isalnum(At(norm_text, start - 1))
        right_ok == end = Len(norm_text) \/ ~isalnum(At(norm_text, end))
    IN left_ok /\ right_ok

\* idx_map[norm_start] and idx_map[norm_end - 1] exist
MapsBack(map, h) == h.norm_start < Len(map) /\ h.norm_end - 1 < Len(map)

\* orig_start and orig_end of a match
OrigSpan(map, h) ==
    [orig_start |-> At(map, h.norm_start), orig_end |-> At(map, h.norm_end - 1) + 1]

\* ---------------------------------------------------------------- config
HEADER_STARTERS == {"SECRETARIA", "CAMARA", "CÂMARA", "TRIBUNAL"}

STOPWORDS_UP == {"DO", "DA", "DE", "DOS", "DAS", "E", "A", "O", "EM", "PARA",
                 "COM", "NO", "NA", "NOS", "NAS"}

DOC_LABELS_SECTION == {<<"AVISO">>, <<"AVISOS">>, <<"DESPACHO">>, <<"EDITAL">>,
                       <<"DESPACHO", "CONJUNTO">>}

DocLabelPrefixes == {"DESPACHO", "AVISO", "AVISOS", "EDITAL"}

NumberMarkers == {"N.º", "Nº", "N°", "N.O"}

DomainNouns == {"PLANO", "CULTURA", "TURISMO", "AMBIENTE", "RECURSOS"}

PrevJoiners == {"E", "DO", "DA", "DE", "DOS", "DAS"}

max_header_lines == 3

lookahead_window == 2

\* ---------------------------------------------------------------- lines
\* str.strip().split() of a line: its word atoms
RECURSIVE WordsOf(_)
WordsOf(ln) ==
    IF ln = <<>> THEN <<>>
    ELSE IF Head(ln) = NL THEN WordsOf(Tail(ln))
    ELSE <<Head(ln)>> \o WordsOf(Tail(ln))

RECURSIVE UpperAll(_)
UpperAll(ws) == IF ws = <<>> THEN <<>> ELSE <<Upper(Head(ws))>> \o UpperAll(Tail(ws))

\* text.splitlines(keepends=True) with running offsets: (start, end, ln) per line
RECURSIVE LineEnds(_, _)
LineEnds(t, from) ==
    IF from >= Len(t) THEN <<>>
    ELSE LET nl == {k \in from..(Len(t) - 1) : At(t, k) = NL}
             end == IF nl = {} THEN Len(t)
                    ELSE (CHOOSE k \in nl : \A m \in nl : k <= m) + 1
         IN <<[start |-> from, end |-> end, ln |-> Slice(t, from, end)]>>
            \o LineEnds(t, end)

line_offsets(t) == LineEnds(t, 0)

\* ---------------------------------------------------------------- classifier
is_blank(ln) == WordsOf(ln) = <<>>

first_alpha_word_upper(ln) ==
    IF WordsOf(ln) = <<>> THEN "" ELSE StripPunct(Upper(AsciiFold(Head(WordsOf(ln)))))

starts_with_header_starter(ln) ==
    /\ WordsOf(ln) # <<>>
    /\ first_alpha_word_upper(ln) \in HEADER_STARTERS

\* RX_CONTRATO_SOC.search: the phrase "contrato de sociedade", any case
HasContrato(ln) ==
    LET up == UpperAll(WordsOf(ln))
    IN \E k \in 1..(Len(up) - 2) :
          /\ up[k] = "CONTRATO" /\ up[k + 1] = "DE" /\ up[k + 2] = "SOCIEDADE"

is_doc_label_line(ln) ==
    LET head == UpperAll(WordsOf(ln))
    IN /\ head # <<>>
       /\ \/ head \in DOC_LABELS_SECTION
          \/ /\ Head(head) \in DocLabelPrefixes
             /\ \E k \in 1..Len(head) : head[k] \in NumberMarkers
          \/ HasContrato(ln)

content_token_count(ln) ==
    Cardinality({k \in 1..Len(WordsOf(ln)) :
                    StripPunct(Upper(AsciiFold(WordsOf(ln)[k]))) \notin STOPWORDS_UP})

is_header_continuation(prev_line, curr_line) ==
    LET parts == UpperAll(WordsOf(curr_line))
        prev_up == UpperAll(WordsOf(prev_line))
    IN /\ ~is_blank(curr_line)
       /\ \/ /\ parts[1] \in STOPWORDS_UP
             /\ content_token_count(curr_line) >= 1
          \/ /\ Len(prev_up) >= 2
             /\ prev_up[Len(prev_up)] \in PrevJoiners
          \/ /\ prev_up # <<>>
             /\ EndsWithJoinPunct(prev_up[Len(prev_up)])
          \/ /\ parts[1] \in STOPWORDS_UP
             /\ \E k \in 1..Len(parts) : parts[k] \in DomainNouns

\* ---------------------------------------------------------------- spans
MkSpan(label, start, end) == [label |-> label, start |-> start, end |-> end]

SpanText(t, sp) == Slice(t, sp.start, sp.end)

\* char_span(...): None (here: no span) when the covered text strips to empty
char_span_ok(t, start, end) == start < end /\ ~is_blank(Slice(t, start, end))

NoSpan == [label |-> "NONE", start |-> None, end |-> None]

Overlaps(a, b) == a.start < b.end /\ b.start < a.end

\* sorted(..., key=lambda e: (e.start, -e.end)), stable
Before(a, b) == a.start < b.start \/ (a.start = b.start /\ a.end > b.end)

RECURSIVE InsertSorted(_, _)
InsertSorted(sorted, x) ==
    IF sorted = <<>> THEN <<x>>
    ELSE IF Before(x, Head(sorted)) THEN <<x>> \o sorted
    ELSE <<Head(sorted)>> \o InsertSorted(Tail(sorted), x)

RECURSIVE SortByStart(_)
SortByStart(s) ==
    IF s = <<>> THEN <<>>
    ELSE InsertSorted(SortByStart(SubSeq(s, 1, Len(s) - 1)), s[Len(s)])

\* spacy.util.filter_spans: longest first, ties to the earlier start, keep a span
\* when it overlaps none already kept, result in start order
Longer(a, b) ==
    \/ a.end - a.start > b.end - b.start
    \/ (a.end - a.start = b.end - b.start /\ a.start < b.start)

RECURSIVE InsertLongest(_, _)
InsertLongest(sorted, x) ==
    IF sorted = <<>> THEN <<x>>
    ELSE IF Longer(x, Head(sorted)) THEN <<x>> \o sorted
    ELSE <<Head(sorted)>> \o InsertLongest(Tail(sorted), x)

RECURSIVE SortLongest(_)
SortLongest(s) ==
    IF s = <<>> THEN <<>>
    ELSE InsertLongest(SortLongest(SubSeq(s, 1, Len(s) - 1)), s[Len(s)])

RECURSIVE KeepDisjoint(_, _)
KeepDisjoint(s, kept) ==
    IF s = <<>> THEN kept
    ELSE IF \E n \in 1..Len(kept) : Overlaps(kept[n], Head(s))
         THEN KeepDisjoint(Tail(s), kept)
    ELSE KeepDisjoint(Tail(s), Append(kept, Head(s)))

filter_spans(s) == SortByStart(KeepDisjoint(SortLongest(s), <<>>))

\* ---------------------------------------------------------------- segmenter
NLines == Len(lines)
Ln(k) == lines[k + 1].ln

\* the stop test of the header look-ahead loop for line k
HeaderStops(k) ==
    \/ is_blank(Ln(k))
    \/ is_doc_label_line(Ln(k))
    \/ starts_with_header_starter(Ln(k))

\* a header look-ahead without the cap on the number of lines
CanAbsorbNoCap ==
    /\ j < NLines
    /\ ~HeaderStops(j)
    /\ is_header_continuation(Ln(j - 1), Ln(j))

\* one more turn of the inner while loop is taken and absorbs line j
CanAbsorb ==
    /\ j < NLines
    /\ j - i < max_header_lines
    /\ ~HeaderStops(j)
    /\ is_header_continuation(Ln(j - 1), Ln(j))

\* a look-ahead that reads on past a header or a doc label line
RECURSIVE LookaheadPastStops(_, _)
LookaheadPastStops(k, la) ==
    IF la > lookahead_window \/ k + la >= NLines THEN FALSE
    ELSE IF HasContrato(Ln(k + la)) THEN TRUE
    ELSE LookaheadPastStops(k, la + 1)

\* Rule B: look-ahead for "contrato de sociedade", from offset la
RECURSIVE Lookahead(_, _)
Lookahead(k, la) ==
    IF la > lookahead_window \/ k + la >= NLines THEN FALSE
    ELSE IF HasContrato(Ln(k + la)) THEN TRUE
    ELSE IF starts_with_header_starter(Ln(k + la)) \/ is_doc_label_line(Ln(k + la))
         THEN FALSE
    ELSE Lookahead(k, la + 1)

RuleA(k) == content_token_count(Ln(k)) >= 4 /\ ~starts_with_header_starter(Ln(k))

promote_secondary(k) ==
    /\ ~is_blank(Ln(k))
    /\ \/ RuleA(k)
       \/ Lookahead(k, 1)

\* a continuation merge that takes any non-blank line
MergesAnyLine(k) ==
    /\ k + 1 < NLines
    /\ ~is_blank(Ln(k + 1))

\* the one-line continuation merge of a promoted line
MergesNext(k) ==
    /\ k + 1 < NLines
    /\ ~is_blank(Ln(k + 1))
    /\ ~starts_with_header_starter(Ln(k + 1))
    /\ ~is_doc_label_line(Ln(k + 1))

Step(st, act, n) == [line |-> i, st |-> st, act |-> act, adv |-> n]

OutsideBlank ==
    /\ pc = "segment" /\ state = "OUTSIDE" /\ i < NLines
    /\ is_blank(Ln(i))
    /\ i' = i + 1
    /\ trace' = Append(trace, Step("OUTSIDE", "blank", 1))
    /\ UNCHANGED <<text, pc, lines, state, header_start, header_end, j, spans, relVars, sumVars, ancVars, chrVars>>

HeaderStart ==
    /\ pc = "segment" /\ state \in {"OUTSIDE", "IN_SECTION"} /\ i < NLines
    /\ ~is_blank(Ln(i))
    /\ starts_with_header_starter(Ln(i))
    /\ state' = "IN_ORG"
    /\ header_start' = lines[i + 1].start
    /\ header_end' = lines[i + 1].end
    /\ j' = i + 1
    /\ trace' = Append(trace, Step(state, "header", 0))
    /\ UNCHANGED <<text, pc, lines, i, spans, relVars, sumVars, ancVars, chrVars>>

HeaderAbsorb ==
    /\ pc = "segment" /\ state = "IN_ORG"
    /\ CanAbsorb
    /\ header_end' = lines[j + 1].end
    /\ j' = j + 1
    /\ UNCHANGED <<text, pc, lines, i, state, header_start, spans, trace, relVars, sumVars, ancVars, chrVars>>

\* a header close that goes back to OUTSIDE
HeaderCloseToOutside ==
    /\ pc = "segment" /\ state = "IN_ORG"
    /\ ~CanAbsorb
    /\ i' = j
    /\ spans' = IF header_start # None /\ header_end # None /\ header_end > header_start
                   /\ char_span_ok(text, header_start, header_end)
                THEN Append(spans, MkSpan("ORG", header_start, header_end))
                ELSE spans
    /\ header_start' = None
    /\ header_end' = None
    /\ state' = "OUTSIDE"
    /\ trace' = [trace EXCEPT ![Len(trace)].adv = j - i]
    /\ UNCHANGED <<text, pc, lines, j, relVars, sumVars, ancVars, chrVars>>

\* i = j; close_header(i); state = "IN_SECTION"
HeaderClose ==
    /\ pc = "segment" /\ state = "IN_ORG"
    /\ ~CanAbsorb
    /\ i' = j
    /\ spans' = IF header_start # None /\ header_end # None /\ header_end > header_start
                   /\ char_span_ok(text, header_start, header_end)
                THEN Append(spans, MkSpan("ORG", header_start, header_end))
                ELSE spans
    /\ header_start' = None
    /\ header_end' = None
    /\ state' = "IN_SECTION"
    /\ trace' = [trace EXCEPT ![Len(trace)].adv = j - i]
    /\ UNCHANGED <<text, pc, lines, j, relVars, sumVars, ancVars, chrVars>>

OutsideOther ==
    /\ pc = "segment" /\ state = "OUTSIDE" /\ i < NLines
    /\ ~is_blank(Ln(i))
    /\ ~starts_with_header_starter(Ln(i))
    /\ IF is_doc_label_line(Ln(i)) /\ char_span_ok(text, lines[i + 1].start, lines[i + 1].end)
       THEN /\ spans' = Append(spans, MkSpan("DOC", lines[i + 1].start, lines[i + 1].end))
            /\ trace' = Append(trace, Step("OUTSIDE", "doc", 1))
       ELSE /\ spans' = spans
            /\ trace' = Append(trace, Step("OUTSIDE", "skip", 1))
    /\ i' = i + 1
    /\ UNCHANGED <<text, pc, lines, state, header_start, header_end, j, relVars, sumVars, ancVars, chrVars>>

SectionDoc ==
    /\ pc = "segment" /\ state = "IN_SECTION" /\ i < NLines
    /\ ~(~is_blank(Ln(i)) /\ starts_with_header_starter(Ln(i)))
    /\ is_doc_label_line(Ln(i))
    /\ spans' = IF char_span_ok(text, lines[i + 1].start, lines[i + 1].end)
                THEN Append(spans, MkSpan("DOC", lines[i + 1].start, lines[i + 1].end))
                ELSE spans
    /\ i' = i + 1
    /\ trace' = Append(trace, Step("IN_SECTION", "doc", 1))
    /\ UNCHANGED <<text, pc, lines, state, header_start, header_end, j, relVars, sumVars, ancVars, chrVars>>

SectionSecondary ==
    /\ pc = "segment" /\ state = "IN_SECTION" /\ i < NLines
    /\ ~(~is_blank(Ln(i)) /\ starts_with_header_starter(Ln(i)))
    /\ ~is_doc_label_line(Ln(i))
    /\ promote_secondary(i)
    /\ IF char_span_ok(text, lines[i + 1].start, lines[i + 1].end) /\ MergesNext(i)
          /\ char_span_ok(text, lines[i + 1].start, lines[i + 2].end)
       THEN /\ spans' = Append(spans, MkSpan("ORG_SECUNDARIA", lines[i + 1].start,
                                             lines[i + 2].end))
            /\ i' = i + 2
            /\ trace' = Append(trace, Step("IN_SECTION", "merged", 2))
       ELSE /\ spans' = IF char_span_ok(text, lines[i + 1].start, lines[i + 1].end)
                        THEN Append(spans, MkSpan("ORG_SECUNDARIA", lines[i + 1].start,
                                                  lines[i + 1].end))
                        ELSE spans
            /\ i' = i + 1
            /\ trace' = Append(trace, Step("IN_SECTION", "secondary", 1))
    /\ UNCHANGED <<text, pc, lines, state, header_start, header_end, j, relVars, sumVars, ancVars, chrVars>>

\* a plain-text step that moves two lines on
SectionSkipTwo ==
    /\ pc = "segment" /\ state = "IN_SECTION" /\ i < NLines
    /\ ~(~is_blank(Ln(i)) /\ starts_with_header_starter(Ln(i)))
    /\ ~is_doc_label_line(Ln(i))
    /\ ~promote_secondary(i)
    /\ i' = i + 2
    /\ trace' = Append(trace, Step("IN_SECTION", "skip", 2))
    /\ UNCHANGED <<text, pc, lines, state, header_start, header_end, j, spans, relVars, sumVars, ancVars, chrVars>>

SectionSkip ==
    /\ pc = "segment" /\ state = "IN_SECTION" /\ i < NLines
    /\ ~(~is_blank(Ln(i)) /\ starts_with_header_starter(Ln(i)))
    /\ ~is_doc_label_line(Ln(i))
    /\ ~promote_secondary(i)
    /\ i' = i + 1
    /\ trace' = Append(trace, Step("IN_SECTION", "skip", 1))
    /\ UNCHANGED <<text, pc, lines, state, header_start, header_end, j, spans, relVars, sumVars, ancVars, chrVars>>

SegmentDone ==
    /\ pc = "segment" /\ state # "IN_ORG" /\ i >= NLines
    /\ pc' = "relations"
    /\ ents' = filter_spans(spans)
    /\ UNCHANGED <<text, segVars, rel_i, current_org, current_sub, relations, sumVars, ancVars, chrVars>>

\* ---------------------------------------------------------------- relations
\* is_company_doc_label_text
is_company_doc_label_text(ws) == HasContrato(ws)

MkRel(kind, head, tail) == [relation |-> kind, head |-> head, tail |-> tail]

\* relations that attach a DOC to the current ORG whether there is one or not
RelationsForAnyOrg(ent, org, sub) ==
    IF ent.label = "ORG_SECUNDARIA"
    THEN IF org # NoSpan THEN <<MkRel("CONTAINS", org, ent)>> ELSE <<>>
    ELSE IF ent.label = "DOC"
    THEN IF sub # NoSpan /\ is_company_doc_label_text(SpanText(text, ent))
         THEN <<MkRel("HAS_DOCUMENT", sub, ent)>>
         ELSE <<MkRel("SECTION_ITEM", org, ent)>>
    ELSE <<>>

\* relations that prefer the current ORG to the current sub-organization
RelationsForOrgFirst(ent, org, sub) ==
    IF ent.label = "ORG_SECUNDARIA"
    THEN IF org # NoSpan THEN <<MkRel("CONTAINS", org, ent)>> ELSE <<>>
    ELSE IF ent.label = "DOC"
    THEN IF org # NoSpan THEN <<MkRel("SECTION_ITEM", org, ent)>>
         ELSE IF sub # NoSpan /\ is_company_doc_label_text(SpanText(text, ent))
         THEN <<MkRel("HAS_DOCUMENT", sub, ent)>>
         ELSE <<>>
    ELSE <<>>

\* relations that leave a plain DOC under a sub-organization without a head
RelationsForCompanyOnly(ent, org, sub) ==
    IF ent.label = "ORG_SECUNDARIA"
    THEN IF org # NoSpan THEN <<MkRel("CONTAINS", org, ent)>> ELSE <<>>
    ELSE IF ent.label = "DOC"
    THEN IF sub # NoSpan
         THEN IF is_company_doc_label_text(SpanText(text, ent))
              THEN <<MkRel("HAS_DOCUMENT", sub, ent)>> ELSE <<>>
         ELSE IF org # NoSpan THEN <<MkRel("SECTION_ITEM", org, ent)>> ELSE <<>>
    ELSE <<>>

\* the relations one entity adds (none or one)
RelationsFor(ent, org, sub) ==
    IF ent.label = "ORG_SECUNDARIA"
    THEN IF org # NoSpan THEN <<MkRel("CONTAINS", org, ent)>> ELSE <<>>
    ELSE IF ent.label = "DOC"
    THEN IF sub # NoSpan /\ is_company_doc_label_text(SpanText(text, ent))
         THEN <<MkRel("HAS_DOCUMENT", sub, ent)>>
         ELSE IF org # NoSpan THEN <<MkRel("SECTION_ITEM", org, ent)>> ELSE <<>>
    ELSE <<>>

\* a current_org that stays the first ORG of the document
NextOrgFirstOnly(ent, org) == IF ent.label = "ORG" /\ org = NoSpan THEN ent ELSE org

NextOrg(ent, org) == IF ent.label = "ORG" THEN ent ELSE org

\* a current_sub that an ORG_SECUNDARIA without relation does not become
NextSubIfContained(ent, sub) ==
    IF ent.label = "ORG" THEN NoSpan
    ELSE IF ent.label = "ORG_SECUNDARIA" /\ current_org # NoSpan THEN ent
    ELSE sub

\* a current_sub that an ORG does not reset
NextSubNoReset(ent, sub) ==
    IF ent.label = "ORG_SECUNDARIA" THEN ent ELSE sub

NextSub(ent, sub) ==
    IF ent.label = "ORG" THEN NoSpan
    ELSE IF ent.label = "ORG_SECUNDARIA" THEN ent
    ELSE sub

\* one turn of the loop of build_relations
RelStep ==
    /\ pc = "relations" /\ rel_i < Len(ents)
    /\ LET ent == ents[rel_i + 1]
       IN /\ relations' = relations \o RelationsFor(ent, current_org, current_sub)
          /\ current_org' = NextOrg(ent, current_org)
          /\ current_sub' = NextSub(ent, current_sub)
    /\ rel_i' = rel_i + 1
    /\ UNCHANGED <<text, pc, segVars, ents, sumVars, ancVars, chrVars>>

RelDone ==
    /\ pc = "relations" /\ rel_i >= Len(ents)
    /\ pc' = "split"
    /\ UNCHANGED <<text, segVars, relVars, sumVars, ancVars, chrVars>>

\* ---------------------------------------------------------------- split
\* str.strip(",.;:") on a word atom
StripOrgPunct(w) ==
    CASE w = "SECRETARIA," -> "SECRETARIA"
      [] w = "CAMARA,"     -> "CAMARA"
      [] OTHER             -> w

\* _norm_org: _collapse_ws(s).upper().strip(",.;:")
_norm_org(ws) ==
    LET up == UpperAll(WordsOf(ws))
    IN IF up = <<>> THEN <<>>
       ELSE [up EXCEPT ![Len(up)] = StripOrgPunct(up[Len(up)])]

\* a scan that cuts after the repeated ORG instead of before it
RECURSIVE FindRepeatEnd(_, _, _, _)
FindRepeatEnd(t, es, n, seen) ==
    IF n > Len(es) THEN Len(t)
    ELSE IF es[n].label # "ORG" THEN FindRepeatEnd(t, es, n + 1, seen)
    ELSE IF _norm_org(SpanText(t, es[n])) \in seen THEN es[n].end
    ELSE FindRepeatEnd(t, es, n + 1, seen \cup {_norm_org(SpanText(t, es[n]))})

\* a scan that cuts at the second ORG when none repeats
RECURSIVE FindRepeatOrSecond(_, _, _, _)
FindRepeatOrSecond(t, es, n, seen) ==
    IF n > Len(es) THEN Len(t)
    ELSE IF es[n].label # "ORG" THEN FindRepeatOrSecond(t, es, n + 1, seen)
    ELSE IF seen # {} THEN es[n].start
    ELSE FindRepeatOrSecond(t, es, n + 1, seen \cup {_norm_org(SpanText(t, es[n]))})

\* a scan that cuts at the entity that follows the repeated ORG
RECURSIVE FindRepeatNextEntity(_, _, _, _)
FindRepeatNextEntity(t, es, n, seen) ==
    IF n > Len(es) THEN Len(t)
    ELSE IF es[n].label # "ORG" THEN FindRepeatNextEntity(t, es, n + 1, seen)
    ELSE IF _norm_org(SpanText(t, es[n])) \in seen
         THEN (IF n < Len(es) THEN es[n + 1].start ELSE Len(t))
    ELSE FindRepeatNextEntity(t, es, n + 1, seen \cup {_norm_org(SpanText(t, es[n]))})

\* _find_body_start_with_first_repeated_org: scan of the entities from index n on,
\* seen = the keys of the ORG entities before n
RECURSIVE FindRepeat(_, _, _, _)
FindRepeat(t, es, n, seen) ==
    IF n > Len(es) THEN Len(t)
    ELSE IF es[n].label # "ORG" THEN FindRepeat(t, es, n + 1, seen)
    ELSE IF _norm_org(SpanText(t, es[n])) \in seen THEN es[n].start
    ELSE FindRepeat(t, es, n + 1, seen \cup {_norm_org(SpanText(t, es[n]))})

_find_body_start_with_first_repeated_org(t, es) == FindRepeat(t, SortByStart(es), 1, {})

\* _filter_ents_in_span, the three label lists in one start-ordered list
_filter_ents_in_span(es, a, b) ==
    SortByStart(SelectSeq(es, LAMBDA e : a <= e.start /\ e.end <= b
                                         /\ e.label \in {"ORG", "DOC", "ORG_SECUNDARIA"}))

_filter_relations_in_span(rels, a, b) ==
    SelectSeq(rels, LAMBDA r : a <= r.head.start /\ r.head.start < b
                               /\ a <= r.tail.start /\ r.tail.start < b)

MkItem(org, d, start, end, order_idx) ==
    [org_start |-> org.start, org_end |-> org.end,
     doc_start |-> d.start, doc_end |-> d.end,
     slice_start |-> start, slice_end |-> end, order_index |-> order_idx]

\* the slicing routine of build_sumario_and_body for one ORG: first, middle(s), last
SegBlocks(org, docs, section_end, order_idx) ==
    IF docs = <<>> THEN <<>>
    ELSE [n \in 1..Len(docs) |->
            MkItem(org, docs[n],
                   IF n = 1 THEN org.start ELSE docs[n].start,
                   IF n < Len(docs) THEN docs[n + 1].start ELSE section_end,
                   order_idx + n - 1)]

\* the body loop of build_sumario_and_body over body_orgs[n..]
RECURSIVE SegBody(_, _, _, _, _, _)
SegBody(t, es, rels, body_orgs, n, items) ==
    IF n > Len(body_orgs) THEN items
    ELSE LET org == body_orgs[n]
             next_starts == {body_orgs[m].start : m \in {m \in 1..Len(body_orgs) :
                                                   body_orgs[m].start > org.start}}
             section_end == IF next_starts = {} THEN Len(t)
                            ELSE CHOOSE x \in next_starts : \A y \in next_starts : x <= y
             mine == SelectSeq(rels, LAMBDA r :
                         /\ r.relation = "SECTION_ITEM"
                         /\ r.head.start = org.start /\ r.head.end = org.end
                         /\ \E m \in 1..Len(es) : es[m] = r.tail)
             docs == SortByStart(SelectSeq([m \in 1..Len(mine) |-> mine[m].tail],
                         LAMBDA d : org.end <= d.start /\ d.start < section_end))
         IN SegBody(t, es, rels, body_orgs, n + 1,
                    items \o SegBlocks(org, docs, section_end, Len(items) + 1))

build_sumario_and_body ==
    /\ pc = "split"
    /\ LET c == _find_body_start_with_first_repeated_org(text, ents)
           es == SortByStart(ents)
       IN /\ cut' = c
          /\ sumario' = [text |-> Slice(text, 0, c),
                         ents |-> _filter_ents_in_span(ents, 0, c),
                         relations |-> _filter_relations_in_span(relations, 0, c)]
          /\ seg_items' = SegBody(text, ents, relations,
                                  SelectSeq(es, LAMBDA e : e.label = "ORG" /\ e.start >= c),
                                  1, <<>>)
    /\ pc' = "blueprint"
    /\ UNCHANGED <<text, segVars, relVars, ancVars, chrVars>>

\* ---------------------------------------------------------------- re-anchoring
\* _normalize_for_match on a Sumario string of atoms: upper-cased words, the
\* newlines collapsed away, edge punctuation trimmed
_normalize_for_match_atoms(ws) ==
    LET up == UpperAll(WordsOf(ws))
    IN IF up = <<>> THEN <<>>
       ELSE [up EXCEPT ![Len(up)] = StripPunct(up[Len(up)])]

\* _build_normalized_body_with_map on a body of atoms: a run of newlines becomes
\* one " ", a word is upper-cased; idx_map holds the body offset of every output
\* position
RECURSIVE NormBody(_, _, _, _)
NormBody(body, n, was_space, acc) ==
    IF n >= Len(body) THEN acc
    ELSE IF At(body, n) = NL
         THEN IF was_space THEN NormBody(body, n + 1, TRUE, acc)
              ELSE NormBody(body, n + 1, TRUE,
                            [norm |-> Append(acc.norm, " "),
                             idx_map |-> Append(acc.idx_map, n)])
    ELSE NormBody(body, n + 1, FALSE,
                  [norm |-> Append(acc.norm, Upper(At(body, n))),
                   idx_map |-> Append(acc.idx_map, n)])

_build_normalized_body_with_map_atoms(body) ==
    NormBody(body, 0, FALSE, [norm |-> <<>>, idx_map |-> <<>>])

\* nlp.make_doc(norm_body): the tokens, each with its offset in norm_body
RECURSIVE TokensFrom(_, _)
TokensFrom(norm, n) ==
    IF n >= Len(norm) THEN <<>>
    ELSE (IF At(norm, n) # " " THEN <<[text |-> At(norm, n), idx |-> n]>> ELSE <<>>)
         \o TokensFrom(norm, n + 1)

TokensOf(norm) == TokensFrom(norm, 0)

MkCand(st, en) == [st |-> st, en |-> en]
NoCand == [st |-> None, en |-> None]

CandBefore(a, b) == a.st < b.st \/ (a.st = b.st /\ a.en > b.en)

RECURSIVE InsertCand(_, _)
InsertCand(sorted, x) ==
    IF sorted = <<>> THEN <<x>>
    ELSE IF CandBefore(x, Head(sorted)) THEN <<x>> \o sorted
    ELSE <<Head(sorted)>> \o InsertCand(Tail(sorted), x)

RECURSIVE SortCands(_)
SortCands(s) ==
    IF s = <<>> THEN <<>>
    ELSE InsertCand(SortCands(SubSeq(s, 1, Len(s) - 1)), s[Len(s)])

\* the candidates of one normalized phrase: PhraseMatcher hits on the tokens of
\* the normalized body, mapped back through idx_map, gated for ORG/ORG_SECUNDARIA
\* (a phrase match starts and ends at tokens that blanks separate, so the
\* word-boundary guard lets every hit through)
PhraseCands(full_text, c, label, phrase) ==
    LET nb == _build_normalized_body_with_map_atoms(Slice(full_text, c, Len(full_text)))
        toks == TokensOf(nb.norm)
        hits == {n \in 1..(Len(toks) - Len(phrase) + 1) :
                    \A m \in 1..Len(phrase) : toks[n + m - 1].text = phrase[m]}
        Span(n) ==
            LET norm_start == toks[n].idx
                norm_end == toks[n + Len(phrase) - 1].idx + 1
            IN MkCand(c + At(nb.idx_map, norm_start), c + At(nb.idx_map, norm_end - 1) + 1)
        ok == {n \in hits :
                  GateAccepts(label, Spell(Slice(full_text, Span(n).st, Span(n).en)))}
        RECURSIVE Collect(_)
        Collect(n) ==
            IF n > Len(toks) THEN <<>>
            ELSE (IF n \in ok THEN <<Span(n)>> ELSE <<>>) \o Collect(n + 1)
    IN SortCands(Collect(1))

\* add_phrases: the distinct non-empty normalized phrases of a label
PhraseSet(texts) ==
    {_normalize_for_match_atoms(texts[n]) : n \in 1..Len(texts)} \ {<<>>}

\* gather_candidates: phrase -> sorted candidates, for the phrases that have any
gather_candidates(full_text, c, label, texts) ==
    LET with == {ph \in PhraseSet(texts) : PhraseCands(full_text, c, label, ph) # <<>>}
    IN [ph \in with |-> PhraseCands(full_text, c, label, ph)]

\* dict.get(norm, [])
Get(cands, norm) == IF norm \in DOMAIN cands THEN cands[norm] ELSE <<>>

\* the first candidate with st >= cur, or NoCand
FirstFrom(cands, cur) ==
    LET ok == {n \in 1..Len(cands) : cands[n].st >= cur}
    IN IF ok = {} THEN NoCand
       ELSE cands[CHOOSE n \in ok : \A m \in ok : n <= m]

\* a blueprint that lists every DOC between an ORG and the next ORG
_build_blueprint_every_doc(sm) ==
    LET orgs == SelectSeq(SortByStart(sm.ents), LAMBDA e : e.label = "ORG")
        Under(n) ==
            SelectSeq(SortByStart(sm.ents), LAMBDA e :
                /\ e.start > orgs[n].start
                /\ (n < Len(orgs) => e.start < orgs[n + 1].start))
        OfLabel(n, label) == SelectSeq(Under(n), LAMBDA e : e.label = label)
    IN [n \in 1..Len(orgs) |->
          [org_text |-> Slice(sm.text, orgs[n].start, orgs[n].end),
           suborgs |-> [m \in 1..Len(OfLabel(n, "ORG_SECUNDARIA")) |->
                           Slice(sm.text, OfLabel(n, "ORG_SECUNDARIA")[m].start,
                                 OfLabel(n, "ORG_SECUNDARIA")[m].end)],
           docs |-> [m \in 1..Len(OfLabel(n, "DOC")) |->
                           Slice(sm.text, OfLabel(n, "DOC")[m].start,
                                 OfLabel(n, "DOC")[m].end)]]]

\* _build_blueprint
_build_blueprint(sm) ==
    LET orgs == SelectSeq(SortByStart(sm.ents), LAMBDA e : e.label = "ORG")
        TextOf(tail, label) ==
            IF \E n \in 1..Len(sm.ents) : sm.ents[n] = [tail EXCEPT !.label = label]
            THEN Slice(sm.text, tail.start, tail.end) ELSE <<>>
        Tails(org, kind) ==
            LET rs == SelectSeq(sm.relations, LAMBDA r :
                          /\ r.relation = kind
                          /\ r.head.start = org.start /\ r.head.end = org.end)
            IN SortByStart([n \in 1..Len(rs) |-> rs[n].tail])
    IN [n \in 1..Len(orgs) |->
          [org_text |-> Slice(sm.text, orgs[n].start, orgs[n].end),
           suborgs |-> [m \in 1..Len(Tails(orgs[n], "CONTAINS")) |->
                           TextOf(Tails(orgs[n], "CONTAINS")[m], "ORG_SECUNDARIA")],
           docs |-> [m \in 1..Len(Tails(orgs[n], "SECTION_ITEM")) |->
                           TextOf(Tails(orgs[n], "SECTION_ITEM")[m], "DOC")]]]

\* body starts here: cut = len(sumario.text)
BodyCut == Len(sumario.text)

BuildBlueprint ==
    /\ pc = "blueprint"
    /\ blueprint' = _build_blueprint(sumario)
    /\ pc' = "gather"
    /\ UNCHANGED <<text, segVars, relVars, sumVars, org_cands, sub_cands, doc_cands,
                   cursor, assigned_orgs, sec_i, sections, body_items, chrVars>>

GatherCandidates ==
    /\ pc = "gather"
    /\ org_cands' = gather_candidates(text, BodyCut, "ORG",
                        [n \in 1..Len(blueprint) |-> blueprint[n].org_text])
    /\ sub_cands' = gather_candidates(text, BodyCut, "ORG_SECUNDARIA",
                        Concat([n \in 1..Len(blueprint) |-> blueprint[n].suborgs]))
    /\ doc_cands' = gather_candidates(text, BodyCut, "DOC",
                        Concat([n \in 1..Len(blueprint) |-> blueprint[n].docs]))
    /\ cursor' = BodyCut
    /\ pc' = "assign"
    /\ UNCHANGED <<text, segVars, relVars, sumVars, blueprint, assigned_orgs, sec_i,
                   sections, body_items, chrVars>>

\* a choice of body anchor that ignores the cursor
ChooseOrgAnywhere(b, cur) ==
    FirstFrom(Get(org_cands, _normalize_for_match_atoms(b.org_text)), BodyCut)

\* the body anchor chosen for blueprint entry b with the cursor at cur
ChooseOrg(b, cur) == FirstFrom(Get(org_cands, _normalize_for_match_atoms(b.org_text)), cur)

\* a turn that moves the cursor to the end of the text when nothing is chosen
AssignOrgSkipToEnd ==
    /\ pc = "assign" /\ Len(assigned_orgs) < Len(blueprint)
    /\ LET b == blueprint[Len(assigned_orgs) + 1]
           chosen == ChooseOrg(b, cursor)
       IN /\ cursor' = IF chosen # NoCand THEN chosen.en ELSE Len(text)
          /\ assigned_orgs' = Append(assigned_orgs,
                 [org_text |-> b.org_text, suborgs |-> b.suborgs, docs |-> b.docs,
                  assigned |-> chosen])
    /\ UNCHANGED <<text, pc, segVars, relVars, sumVars, blueprint, org_cands, sub_cands,
                   doc_cands, sec_i, sections, body_items, chrVars>>

\* one turn of the loop "Assign ORGs in Sumario order"
AssignOrg ==
    /\ pc = "assign" /\ Len(assigned_orgs) < Len(blueprint)
    /\ LET b == blueprint[Len(assigned_orgs) + 1]
           chosen == ChooseOrg(b, cursor)
       IN /\ cursor' = IF chosen # NoCand THEN chosen.en ELSE cursor
          /\ assigned_orgs' = Append(assigned_orgs,
                 [org_text |-> b.org_text, suborgs |-> b.suborgs, docs |-> b.docs,
                  assigned |-> chosen])
    /\ UNCHANGED <<text, pc, segVars, relVars, sumVars, blueprint, org_cands, sub_cands,
                   doc_cands, sec_i, sections, body_items, chrVars>>

AssignDone ==
    /\ pc = "assign" /\ Len(assigned_orgs) >= Len(blueprint)
    /\ pc' = "section"
    /\ UNCHANGED <<text, segVars, relVars, sumVars, ancVars, chrVars>>

\* a section end that is always the end of the text
next_org_start_eof(n) == Len(text)

\* a section end at the end of the next anchored organization
next_org_end(n) ==
    LET later == {m \in (n + 2)..Len(assigned_orgs) : assigned_orgs[m].assigned # NoCand}
    IN IF later = {} THEN Len(text)
       ELSE assigned_orgs[CHOOSE m \in later : \A x \in later : m <= x].assigned.en

\* next_org_start(n), n 0-based
next_org_start(n) ==
    LET later == {m \in (n + 2)..Len(assigned_orgs) : assigned_orgs[m].assigned # NoCand}
    IN IF later = {} THEN Len(text)
       ELSE assigned_orgs[CHOOSE m \in later : \A x \in later : m <= x].assigned.st

\* an assignment whose local cursor stays where it started
RECURSIVE AssignInSameCursor(_, _, _, _, _, _, _)
AssignInSameCursor(cands, texts, n, cur, lo, hi, acc) ==
    IF n > Len(texts) THEN acc
    ELSE LET hits == SelectSeq(Get(cands, _normalize_for_match_atoms(texts[n])),
                               LAMBDA h : lo <= h.st /\ h.st < hi)
             chosen == FirstFrom(hits, cur)
         IN IF chosen # NoCand
            THEN AssignInSameCursor(cands, texts, n + 1, cur, lo, hi, Append(acc, chosen))
            ELSE AssignInSameCursor(cands, texts, n + 1, cur, lo, hi, acc)

\* the in-order assignment of the entries texts[n..] within the window [lo, hi)
RECURSIVE AssignIn(_, _, _, _, _, _, _)
AssignIn(cands, texts, n, cur, lo, hi, acc) ==
    IF n > Len(texts) THEN acc
    ELSE LET hits == SelectSeq(Get(cands, _normalize_for_match_atoms(texts[n])),
                               LAMBDA h : lo <= h.st /\ h.st < hi)
             chosen == FirstFrom(hits, cur)
         IN IF chosen # NoCand
            THEN AssignIn(cands, texts, n + 1, chosen.en, lo, hi, Append(acc, chosen))
            ELSE AssignIn(cands, texts, n + 1, cur, lo, hi, acc)

\* a document assignment whose window runs to the end of the text
AssignDocsPastSection(org_entry, section_end) ==
    AssignIn(doc_cands, org_entry.docs, 1, org_entry.assigned.en,
             org_entry.assigned.en, Len(text), <<>>)

AssignDocs(org_entry, section_end) ==
    AssignIn(doc_cands, org_entry.docs, 1, org_entry.assigned.en,
             org_entry.assigned.en, section_end, <<>>)

AssignSubs(org_entry, section_end) ==
    AssignIn(sub_cands, org_entry.suborgs, 1, org_entry.assigned.st,
             org_entry.assigned.st, section_end, <<>>)

\* slices that all run to the end of the section
BlocksToSectionEnd(org, docs, section_end, order_idx) ==
    [n \in 1..Len(docs) |->
        [org_start |-> org.st, org_end |-> org.en,
         doc_start |-> docs[n].st, doc_end |-> docs[n].en,
         slice_start |-> IF n = 1 THEN org.st ELSE docs[n].st,
         slice_end |-> section_end,
         order_index |-> order_idx + n - 1]]

\* "Build slices like your segmenter: first, middle(s), last"
Blocks(org, docs, section_end, order_idx) ==
    IF docs = <<>> THEN <<>>
    ELSE LET first == [org_start |-> org.st, org_end |-> org.en,
                       doc_start |-> docs[1].st, doc_end |-> docs[1].en,
                       slice_start |-> org.st,
                       slice_end |-> IF Len(docs) >= 2 THEN docs[2].st ELSE section_end,
                       order_index |-> order_idx]
             middle == [n \in 1..(Len(docs) - 2) |->
                          [org_start |-> org.st, org_end |-> org.en,
                           doc_start |-> docs[n + 1].st, doc_end |-> docs[n + 1].en,
                           slice_start |-> docs[n + 1].st,
                           slice_end |-> docs[n + 2].st,
                           order_index |-> order_idx + n]]
             last == IF Len(docs) >= 2
                     THEN <<[org_start |-> org.st, org_end |-> org.en,
                             doc_start |-> docs[Len(docs)].st,
                             doc_end |-> docs[Len(docs)].en,
                             slice_start |-> docs[Len(docs)].st,
                             slice_end |-> section_end,
                             order_index |-> order_idx + Len(docs) - 1]>>
                     ELSE <<>>
         IN <<first>> \o middle \o last

\* one turn of the loop over assigned_orgs: an ORG without a body anchor
SectionSkipOrg ==
    /\ pc = "section" /\ sec_i < Len(assigned_orgs)
    /\ assigned_orgs[sec_i + 1].assigned = NoCand
    /\ sec_i' = sec_i + 1
    /\ UNCHANGED <<text, pc, segVars, relVars, sumVars, blueprint, org_cands, sub_cands,
                   doc_cands, cursor, assigned_orgs, sections, body_items, chrVars>>

\* one turn of the loop over assigned_orgs: an anchored ORG
Section ==
    /\ pc = "section" /\ sec_i < Len(assigned_orgs)
    /\ assigned_orgs[sec_i + 1].assigned # NoCand
    /\ LET org_entry == assigned_orgs[sec_i + 1]
           section_end == next_org_start(sec_i)
           doc_assignments == AssignDocs(org_entry, section_end)
       IN /\ sections' = Append(sections,
                 [roster |-> sec_i + 1, org |-> org_entry.assigned,
                  section_end |-> section_end,
                  subs |-> AssignSubs(org_entry, section_end),
                  docs |-> doc_assignments])
          /\ body_items' = body_items \o Blocks(org_entry.assigned, doc_assignments,
                                                section_end, Len(body_items) + 1)
    /\ sec_i' = sec_i + 1
    /\ UNCHANGED <<text, pc, segVars, relVars, sumVars, blueprint, org_cands, sub_cands,
                   doc_cands, cursor, assigned_orgs, chrVars>>

SectionDone ==
    /\ pc = "section" /\ sec_i >= Len(assigned_orgs)
    /\ pc' = "done"
    /\ UNCHANGED <<text, segVars, relVars, sumVars, ancVars, chrVars>>

\* ---------------------------------------------------------------- pipeline
\* the lines a document is made of (each is followed by a newline)
Catalogue ==
    << <<>>,
       <<"SECRETARIA">>,
       <<"CAMARA">>,
       <<"Aviso">>,
       <<"Contrato", "de", "sociedade">>,
       <<"texto", "texto", "texto", "texto">>,
       <<"texto">>,
       <<"de", "texto">> >>

MaxLines == 4

Documents ==
    {Concat([n \in 1..Len(ls) |-> Catalogue[ls[n]] \o <<NL>>]) :
        ls \in SeqsUpTo(1..Len(Catalogue), MaxLines)}

EmptySumario == [text |-> <<>>, ents |-> <<>>, relations |-> <<>>]

InitSeg ==
    /\ i = 0 /\ state = "OUTSIDE" /\ header_start = None /\ header_end = None
    /\ j = 0 /\ spans = <<>> /\ trace = <<>>

InitRel ==
    /\ ents = <<>> /\ rel_i = 0 /\ current_org = NoSpan /\ current_sub = NoSpan
    /\ relations = <<>>

InitChr ==
    /\ n_text = <<>> /\ n_i = 0 /\ out_chars = <<>> /\ idx_map = <<>>
    /\ last_was_space = FALSE /\ npc = "idle" /\ n_phrase = <<>> /\ n_hits = <<>>
    /\ gate_span = <<>> /\ gate_label = "NONE" /\ gate_out = "idle"

InitAnc ==
    /\ org_cands = <<>> /\ sub_cands = <<>> /\ doc_cands = <<>>
    /\ cursor = 0 /\ assigned_orgs = <<>> /\ sec_i = 0 /\ sections = <<>>
    /\ body_items = <<>>

Init ==
    /\ text \in Documents
    /\ pc = "segment"
    /\ lines = line_offsets(text)
    /\ InitSeg /\ InitRel
    /\ cut = None /\ sumario = EmptySumario /\ seg_items = <<>>
    /\ blueprint = <<>>
    /\ InitAnc /\ InitChr

vars == <<text, pc, segVars, relVars, sumVars, ancVars, chrVars>>

Next ==
    \/ OutsideBlank
    \/ HeaderStart
    \/ HeaderAbsorb
    \/ HeaderClose
    \/ OutsideOther
    \/ SectionDoc
    \/ SectionSecondary
    \/ SectionSkip
    \/ SegmentDone
    \/ RelStep
    \/ RelDone
    \/ build_sumario_and_body
    \/ BuildBlueprint
    \/ GatherCandidates
    \/ AssignOrg
    \/ AssignDone
    \/ SectionSkipOrg
    \/ Section
    \/ SectionDone

Spec == Init /\ [][Next]_vars

\* detect_entities alone: a step of the while loop that can be taken is taken
LoopBody ==
    \/ OutsideBlank
    \/ HeaderStart
    \/ HeaderAbsorb
    \/ HeaderClose
    \/ OutsideOther
    \/ SectionDoc
    \/ SectionSecondary
    \/ SectionSkip

NextSegment ==
    \/ LoopBody
    \/ SegmentDone

SpecSegment == Init /\ [][NextSegment]_vars /\ WF_vars(LoopBody)

\* ---------------------------------------------------------------- split point alone
\* the pipeline on documents whose organization names differ in diacritics,
\* letter case and trailing punctuation
SplitCatalogue ==
    << <<>>,
       <<"CAMARA">>,
       <<"CÂMARA">>,
       <<"Camara">>,
       <<"CAMARA,">>,
       <<"Aviso">>,
       <<"texto", "texto", "texto", "texto">>,
       <<"de", "texto">> >>

SplitDocuments ==
    {Concat([n \in 1..Len(ls) |-> SplitCatalogue[ls[n]] \o <<NL>>]) :
        ls \in SeqsUpTo(1..Len(SplitCatalogue), MaxLines)}

InitSplit ==
    /\ text \in SplitDocuments
    /\ pc = "segment"
    /\ lines = line_offsets(text)
    /\ InitSeg /\ InitRel
    /\ cut = None /\ sumario = EmptySumario /\ seg_items = <<>>
    /\ blueprint = <<>>
    /\ InitAnc /\ InitChr

SpecSplit == InitSplit /\ [][Next]_vars

\* ---------------------------------------------------------------- re-anchoring alone
\* build_body_via_sumario_spacy on a body and a roster of its own
AnchorAtoms == {"SECRETARIA", "CAMARA", "Secretaria", "Aviso", "Edital", NL}

MaxBody == 4

\* the Sumario text before the body
AnchorSumarioText == <<"texto", NL>>

Entry(org, docs) == [org_text |-> org, suborgs |-> <<>>, docs |-> docs]

Rosters ==
    { <<Entry(<<"SECRETARIA", NL>>, << <<"Aviso", NL>> >>)>>,
      <<Entry(<<"SECRETARIA", NL>>, << <<"Aviso", NL>>, <<"Aviso", NL>> >>)>>,
      <<Entry(<<"CAMARA", NL>>, << <<"Aviso", NL>>, <<"Edital", NL>>, <<"Aviso", NL>> >>)>>,
      <<Entry(<<"SECRETARIA", NL>>, << <<"Aviso", NL>>, <<"Aviso", NL>> >>),
        Entry(<<"CAMARA", NL>>, << <<"Aviso", NL>> >>)>>,
      <<Entry(<<"SECRETARIA", NL, "CAMARA", NL>>, << <<"Aviso", NL>> >>),
        Entry(<<"CAMARA", NL>>, << <<"Edital", NL>>, <<"Aviso", NL>> >>)>>,
      <<Entry(<<"CAMARA", NL>>, <<>>),
        Entry(<<"Secretaria", NL>>, << <<"Aviso", NL>> >>)>>,
      <<Entry(<<"CAMARA", NL>>, << <<"Aviso", "Aviso", NL>>, <<"Aviso", "Aviso", NL>> >>)>>,
      <<[org_text |-> <<"SECRETARIA", NL>>, suborgs |-> << <<"CAMARA", NL>> >>,
         docs |-> << <<"Edital", NL>> >>],
        Entry(<<"SECRETARIA", NL>>, << <<"Aviso", NL>> >>)>>,
      <<Entry(<<"SECRETARIA", NL>>, << <<"Edital", "CAMARA", NL>> >>),
        Entry(<<"CAMARA", NL>>, << <<"Aviso", NL>> >>)>> }

InitAnchor ==
    /\ \E body \in SeqsUpTo(AnchorAtoms, MaxBody) : text = AnchorSumarioText \o body
    /\ pc = "gather"
    /\ lines = <<>>
    /\ InitSeg /\ InitRel
    /\ cut = Len(AnchorSumarioText)
    /\ sumario = [text |-> AnchorSumarioText, ents |-> <<>>, relations |-> <<>>]
    /\ seg_items = <<>>
    /\ blueprint \in Rosters
    /\ InitAnc /\ InitChr

NextAnchor ==
    \/ GatherCandidates
    \/ AssignOrg
    \/ AssignDone
    \/ SectionSkipOrg
    \/ Section
    \/ SectionDone

SpecAnchor == InitAnchor /\ [][NextAnchor]_vars


\* ---------------------------------------------------------------- normalizers alone
\* _build_normalized_body_with_map, one loop iteration at a time, and then
\* _normalize_for_match, on a text of their own
NormAlphabet == {"A", "a", "-", ".", " ", SharpS, CombiningAcute}

MaxText == 4

InitIdle ==
    /\ text = <<>> /\ lines = <<>>
    /\ InitSeg /\ InitRel
    /\ cut = None /\ sumario = EmptySumario /\ seg_items = <<>>
    /\ blueprint = <<>>
    /\ InitAnc

InitNorm ==
    /\ InitIdle /\ pc = "normalize"
    /\ n_text \in SeqsUpTo(NormAlphabet, MaxText)
    /\ n_i = 0 /\ out_chars = <<>> /\ idx_map = <<>> /\ last_was_space = FALSE
    /\ npc = "loop" /\ n_phrase = <<>> /\ n_hits = <<>>
    /\ gate_span = <<>> /\ gate_label = "NONE" /\ gate_out = "idle"

LoopState ==
    [i |-> n_i, out_chars |-> out_chars, idx_map |-> idx_map,
     last_was_space |-> last_was_space]

\* the assignments of one iteration of the while loop
LoopStep ==
    /\ LET st == Iterate(n_text, LoopState)
       IN /\ n_i' = st.i
          /\ out_chars' = st.out_chars
          /\ idx_map' = st.idx_map
          /\ last_was_space' = st.last_was_space
    /\ UNCHANGED <<text, pc, segVars, relVars, sumVars, ancVars, gateVars, n_text, npc,
                   n_phrase, n_hits>>

JoinHyphen ==
    /\ npc = "loop" /\ n_i < Len(n_text)
    /\ Branch(n_text, LoopState) = "join"
    /\ LoopStep

CollapseSpace ==
    /\ npc = "loop" /\ n_i < Len(n_text)
    /\ Branch(n_text, LoopState) = "space"
    /\ LoopStep

DropDot ==
    /\ npc = "loop" /\ n_i < Len(n_text)
    /\ Branch(n_text, LoopState) = "dot"
    /\ LoopStep

AppendChar ==
    /\ npc = "loop" /\ n_i < Len(n_text)
    /\ Branch(n_text, LoopState) = "append"
    /\ LoopStep

LoopExit ==
    /\ npc = "loop" /\ n_i >= Len(n_text)
    /\ npc' = "done"
    /\ UNCHANGED <<text, pc, segVars, relVars, sumVars, ancVars, gateVars, n_text, n_i,
                   out_chars, idx_map, last_was_space, n_phrase, n_hits>>

\* add_phrases on a roster string: a piece of the text, or all of it
NormalizeForMatch ==
    /\ npc = "done"
    /\ \E a \in 0..Len(n_text) : \E b \in a..Len(n_text) :
          /\ (a = b => a = 0)
          /\ n_phrase' = _normalize_for_match(Slice(n_text, a, b))
    /\ npc' = "matched"
    /\ UNCHANGED <<text, pc, segVars, relVars, sumVars, ancVars, gateVars, n_text, n_i,
                   out_chars, idx_map, last_was_space, n_hits>>

\* gather_candidates on the normalized text and the normalized phrase: every
\* match passes the word-boundary guard and is mapped back through idx_map
GatherHits ==
    /\ npc = "matched"
    /\ LET norm_body == Concat(out_chars)
           ms == PhraseMatches(norm_body, n_phrase)
           kept == SelectSeq(ms, LAMBDA h :
                       _word_boundary_ok(norm_body, h.norm_start, h.norm_end))
       IN IF \A n \in 1..Len(kept) : MapsBack(idx_map, kept[n])
          THEN /\ n_hits' = [n \in 1..Len(kept) |-> OrigSpan(idx_map, kept[n])]
               /\ npc' = "gathered"
          ELSE /\ n_hits' = <<>>
               /\ npc' = "IndexError"
    /\ UNCHANGED <<text, pc, segVars, relVars, sumVars, ancVars, gateVars, n_text, n_i,
                   out_chars, idx_map, last_was_space, n_phrase>>

NextNorm ==
    \/ JoinHyphen
    \/ CollapseSpace
    \/ DropDot
    \/ AppendChar
    \/ LoopExit
    \/ NormalizeForMatch
    \/ GatherHits

SpecNorm == InitNorm /\ [][NextNorm]_vars

\* ---------------------------------------------------------------- gate alone
\* the ALL-CAPS gate of gather_candidates on a candidate of its own
GateAlphabet == {"A", "a", CaronUpper, CaronLower, "1", " ", NL}

MaxSpan == 4

InitGate ==
    /\ InitIdle /\ pc = "gate"
    /\ n_text = <<>> /\ n_i = 0 /\ out_chars = <<>> /\ idx_map = <<>>
    /\ last_was_space = FALSE /\ npc = "idle" /\ n_phrase = <<>> /\ n_hits = <<>>
    /\ gate_span \in SeqsUpTo(GateAlphabet, MaxSpan) \ {<<>>}
    /\ gate_label \in {"ORG", "ORG_SECUNDARIA", "DOC"}
    /\ gate_out = "pending"

GateReject ==
    /\ gate_out = "pending"
    /\ ~GateAccepts(gate_label, gate_span)
    /\ gate_out' = "rejected"
    /\ UNCHANGED <<text, pc, segVars, relVars, sumVars, ancVars, normVars, gate_span,
                   gate_label>>

GateAccept ==
    /\ gate_out = "pending"
    /\ GateAccepts(gate_label, gate_span)
    /\ gate_out' = "accepted"
    /\ UNCHANGED <<text, pc, segVars, relVars, sumVars, ancVars, normVars, gate_span,
                   gate_label>>

NextGate ==
    \/ GateReject
    \/ GateAccept

SpecGate == InitGate /\ [][NextGate]_vars


\* ---------------------------------------------------------------- relations alone
\* build_relations on entities of its own: every line of the text is one entity
EntityKinds ==
    { [label |-> "ORG", ln |-> <<"CAMARA", NL>>],
      [label |-> "ORG_SECUNDARIA", ln |-> <<"texto", NL>>],
      [label |-> "DOC", ln |-> <<"Aviso", NL>>],
      [label |-> "DOC", ln |-> <<"Contrato", "de", "sociedade", NL>>] }

MaxEnts == 4

\* the text of the entities es[1..n]
RECURSIVE TextOf(_, _)
TextOf(es, n) == IF n = 0 THEN <<>> ELSE TextOf(es, n - 1) \o es[n].ln

\* doc.ents: one span per line
EntsOf(es) ==
    [n \in 1..Len(es) |->
        MkSpan(es[n].label, Len(TextOf(es, n - 1)), Len(TextOf(es, n)))]

InitRelations ==
    /\ \E es \in SeqsUpTo(EntityKinds, MaxEnts) :
          /\ text = TextOf(es, Len(es))
          /\ ents = filter_spans(SortByStart(EntsOf(es)))
    /\ pc = "relations"
    /\ lines = <<>>
    /\ InitSeg
    /\ rel_i = 0 /\ current_org = NoSpan /\ current_sub = NoSpan /\ relations = <<>>
    /\ cut = None /\ sumario = EmptySumario /\ seg_items = <<>>
    /\ blueprint = <<>>
    /\ InitAnc /\ InitChr

NextRelations ==
    \/ RelStep
    \/ RelDone

SpecRelations == InitRelations /\ [][NextRelations]_vars

\* ---------------------------------------------------------------- properties
\* the BodyItems emitted for the anchored ORG of a section record
ItemsOf(sec) == SelectSeq(body_items, LAMBDA it : it.org_start = sec.org.st)

\* C1: for every anchored organization with n >= 1 document anchors, exactly n
\* BodyItems are emitted, the first starts at org_start, the last ends at
\* section_end and each slice ends where the next one starts, every slice being
\* non-empty: the slices tile [org_start, section_end) without gap or overlap.
C1_Partition ==
    \A s \in 1..Len(sections) :
        LET sec == sections[s]
            its == ItemsOf(sec)
            n == Len(sec.docs)
        IN n >= 1 =>
              /\ Len(its) = n
              /\ its[1].slice_start = sec.org.st
              /\ its[n].slice_end = sec.section_end
              /\ \A m \in 1..(n - 1) : its[m].slice_end = its[m + 1].slice_start
              /\ \A m \in 1..n : its[m].slice_start < its[m].slice_end

\* an anchored organization with three document anchors has been sliced into a
\* first, a middle and a last block
C1_Witness ==
    /\ pc = "done"
    /\ \E s \in 1..Len(sections) : Len(sections[s].docs) >= 3
    /\ body_items # <<>>

AnchoredIdx == {n \in 1..Len(assigned_orgs) : assigned_orgs[n].assigned # NoCand}

\* C2: the anchors of the organizations are monotone in roster order: a later
\* anchored organization starts at or after the end of every earlier anchored
\* one, so the org_start offsets strictly increase and no body occurrence is
\* assigned twice.
C2_Monotone ==
    \A a, b \in AnchoredIdx :
        a < b =>
            /\ assigned_orgs[a].assigned.en <= assigned_orgs[b].assigned.st
            /\ assigned_orgs[a].assigned.st < assigned_orgs[b].assigned.st
            /\ assigned_orgs[a].assigned # assigned_orgs[b].assigned

\* two organizations are anchored, and the second one had an occurrence before
\* the cursor that it could not take
C2_Witness ==
    /\ Len(assigned_orgs) = 2
    /\ AnchoredIdx = {1, 2}
    /\ Get(org_cands, _normalize_for_match_atoms(assigned_orgs[2].org_text))[1].st
          < assigned_orgs[1].assigned.en

\* the occurrences of a document phrase in the window of a section
WindowHits(sec, phrase) ==
    SelectSeq(Get(doc_cands, phrase),
              LAMBDA h : sec.org.en <= h.st /\ h.st < sec.section_end)

RosterDocs(sec) ==
    [n \in 1..Len(assigned_orgs[sec.roster].docs) |->
        _normalize_for_match_atoms(assigned_orgs[sec.roster].docs[n])]

\* C10 as claimed: a roster document phrase that appears twice in the window of
\* its anchored organization gives exactly 2 document anchors and 2 BodyItems.
C10_Original ==
    \A s \in 1..Len(sections) :
        \A n \in 1..Len(RosterDocs(sections[s])) :
            Len(WindowHits(sections[s], RosterDocs(sections[s])[n])) = 2 =>
                /\ Len(sections[s].docs) = 2
                /\ Len(ItemsOf(sections[s])) = 2

\* C10 amended: one document anchor is taken per roster document entry.  When
\* the roster of the anchored organization lists the phrase twice and nothing
\* else, and the phrase has two occurrences in the window that do not overlap,
\* there are exactly 2 anchors and 2 BodyItems (a first block from org_start and
\* a last block to section_end); when the roster lists it once, there is exactly
\* 1 anchor and 1 BodyItem covering [org_start, section_end); the anchors never
\* outnumber the roster document entries.
C10_PerRosterEntry ==
    \A s \in 1..Len(sections) :
        LET sec == sections[s]
            rd == RosterDocs(sec)
            its == ItemsOf(sec)
        IN /\ Len(sec.docs) <= Len(rd)
           /\ \A n \in 1..Len(rd) :
                LET hits == WindowHits(sec, rd[n])
                IN (Len(hits) = 2 /\ hits[1].en <= hits[2].st) =>
                      /\ (rd = <<rd[n], rd[n]>> =>
                            /\ sec.docs = hits
                            /\ Len(its) = 2
                            /\ its[1].slice_start = sec.org.st
                            /\ its[1].slice_end = hits[2].st
                            /\ its[2].slice_start = hits[2].st
                            /\ its[2].slice_end = sec.section_end)
                      /\ (rd = <<rd[n]>> =>
                            /\ sec.docs = <<hits[1]>>
                            /\ Len(its) = 1
                            /\ its[1].slice_start = sec.org.st
                            /\ its[1].slice_end = sec.section_end)

\* a phrase the roster lists twice has been found twice in its window
C10_Witness ==
    /\ pc = "done"
    /\ \E s \in 1..Len(sections) :
          LET rd == RosterDocs(sections[s])
          IN /\ Len(rd) = 2 /\ rd[1] = rd[2]
             /\ Len(WindowHits(sections[s], rd[1])) = 2
             /\ Len(ItemsOf(sections[s])) = 2

\* the ORG entities in document order, and those whose normalized name repeats
\* the name of an earlier one
OrgEnts == SelectSeq(SortByStart(ents), LAMBDA e : e.label = "ORG")

OrgKey(e) == _norm_org(SpanText(text, e))

RepeatedOrgs ==
    {n \in 1..Len(OrgEnts) : \E m \in 1..(n - 1) : OrgKey(OrgEnts[m]) = OrgKey(OrgEnts[n])}

AfterSplit == pc \in {"blueprint", "gather", "assign", "section", "done"}

\* C6: when a normalized ORG name repeats, the split offset is the start of the
\* first ORG span whose name equals the name of an earlier ORG span, the summary
\* is text[0:cut] and the body, text[cut:], starts at that span.
C6_SplitPoint ==
    (AfterSplit /\ RepeatedOrgs # {}) =>
        LET first == CHOOSE n \in RepeatedOrgs : \A m \in RepeatedOrgs : n <= m
        IN /\ cut = OrgEnts[first].start
           /\ sumario.text = Slice(text, 0, cut)
           /\ BodyCut = cut
           /\ Slice(text, BodyCut, Len(text)) = Slice(text, OrgEnts[first].start, Len(text))

\* the repeated name is not the name of the first ORG: the cut is at the third
\* ORG span
C6_Witness ==
    /\ pc = "done"
    /\ Len(OrgEnts) = 3
    /\ RepeatedOrgs = {3}
    /\ cut = OrgEnts[3].start

OutsideDocs ==
    {MkSpan("DOC", lines[trace[n].line + 1].start, lines[trace[n].line + 1].end) :
        n \in {n \in 1..Len(trace) :
                  trace[n].st = "OUTSIDE" /\ is_doc_label_line(Ln(trace[n].line))}}

\* the entities build_relations has seen while neither current_org nor
\* current_sub was set: no ORG and no ORG_SECUNDARIA came before them
SeenWithoutContext ==
    {n \in 1..rel_i : \A m \in 1..(n - 1) : ents[m].label = "DOC"}

\* C8: a doc-label line before any ORG header gives a DOC span, which stays an
\* entity, and a DOC span that build_relations sees while neither current_org
\* nor current_sub is set adds no relation.
C8_DocWithoutContext ==
    /\ \A d \in OutsideDocs :
          /\ \E n \in 1..Len(spans) : spans[n] = d
          /\ (pc # "segment" => \E n \in 1..Len(ents) : ents[n] = d)
    /\ \A n \in SeenWithoutContext :
          ents[n].label = "DOC" =>
              \A m \in 1..Len(relations) : relations[m].tail # ents[n]

\* a document that starts with a doc-label line and later has an organization
\* with a relation of its own
C8_Witness ==
    /\ pc = "done"
    /\ OutsideDocs # {}
    /\ \E n \in SeenWithoutContext : ents[n] \in OutsideDocs
    /\ relations # <<>>

\* the lines the main loop looked at in IN_SECTION that are not blank, no header
\* starter and no doc label
PlainSectionLines ==
    {trace[n].line : n \in {n \in 1..Len(trace) :
        /\ trace[n].st = "IN_SECTION"
        /\ ~is_blank(Ln(trace[n].line))
        /\ ~starts_with_header_starter(Ln(trace[n].line))
        /\ ~is_doc_label_line(Ln(trace[n].line))}}

\* Rule B as the claim states it
RuleBClaim(l) ==
    \E la \in 1..2 :
        /\ l + la < NLines
        /\ HasContrato(Ln(l + la))
        /\ \A m \in 1..(la - 1) :
              ~(starts_with_header_starter(Ln(l + m)) \/ is_doc_label_line(Ln(l + m)))

SpansAt(l) == {n \in 1..Len(spans) : spans[n].start = lines[l + 1].start}

\* C9: such a line is promoted to ORG_SECUNDARIA exactly when it has at least 4
\* content tokens (Rule A) or the look-ahead finds "contrato de sociedade" (Rule
\* B); otherwise no span is emitted for it.
C9_Promotion ==
    \A l \in PlainSectionLines :
        IF content_token_count(Ln(l)) >= 4 \/ RuleBClaim(l)
        THEN /\ SpansAt(l) # {}
             /\ \A n \in SpansAt(l) : spans[n].label = "ORG_SECUNDARIA"
        ELSE SpansAt(l) = {}

\* a line of fewer than 4 content tokens promoted by the phrase two lines below
C9_Witness ==
    /\ pc = "done"
    /\ \E l \in PlainSectionLines :
          /\ content_token_count(Ln(l)) < 4
          /\ l + 2 < NLines
          /\ ~HasContrato(Ln(l + 1))
          /\ HasContrato(Ln(l + 2))
          /\ SpansAt(l) # {}

\* a token that has a letter which is not uppercase
MixedCaseToken(tok) ==
    \E n \in 1..Len(tok) : isalpha(tok[n]) /\ upper(tok[n]) # <<tok[n]>>

\* two or more consecutive newlines
CrossesBlankLine(str) ==
    \E n \in 1..(Len(str) - 1) : str[n] = NL /\ str[n + 1] = NL

\* C3: a candidate whose original text has a whitespace-delimited token with a
\* letter that is not uppercase, or crosses a blank line, is never accepted as
\* an ORG or ORG_SECUNDARIA candidate, whatever the alphabet of the letter.
C3_AllCapsGate ==
    (gate_out = "accepted" /\ gate_label \in {"ORG", "ORG_SECUNDARIA"}) =>
        /\ ~CrossesBlankLine(gate_span)
        /\ \A n \in 1..Len(SplitWs(gate_span, <<>>)) :
              ~MixedCaseToken(SplitWs(gate_span, <<>>)[n])

\* C4: for the output (norm, idx_map) of the buffer normalizer and every span
\* 0 <= s < e <= len(norm), idx_map[s] and idx_map[e-1] exist and normalizing
\* text[idx_map[s] : idx_map[e-1]+1] yields norm[s:e].
C4_RoundTrip ==
    npc = "done" =>
        LET norm == Concat(out_chars)
        IN \A s \in 0..(Len(norm) - 1) : \A e \in (s + 1)..Len(norm) :
              /\ e <= Len(idx_map)
              /\ _build_normalized_body_with_map(
                     Slice(n_text, At(idx_map, s), At(idx_map, e - 1) + 1)).norm
                 = Slice(norm, s, e)

\* C5: the phrase normalizer applied to its own output returns it, and so does
\* the buffer normalizer applied to its normalized output.
C5_Idempotent ==
    npc = "matched" =>
        /\ _normalize_for_match(n_phrase) = n_phrase
        /\ _build_normalized_body_with_map(Concat(out_chars)).norm = Concat(out_chars)

\* C11: the re-anchoring never ends in an error: norm_start and norm_end - 1 of
\* every phrase match are indexes of idx_map, also when a source character
\* normalizes to no or to several output characters.
C11_NoIndexError == npc # "IndexError"

\* the ORG that is current when build_relations reaches entity n: the last ORG
\* before it
OrgBefore(n) ==
    LET orgs == {m \in 1..(n - 1) : ents[m].label = "ORG"}
    IN IF orgs = {} THEN NoSpan ELSE ents[CHOOSE m \in orgs : \A x \in orgs : x <= m]

\* the sub-organization that is current at entity n: the last ORG_SECUNDARIA
\* seen since the current ORG
SubBefore(n) ==
    LET subs == {m \in 1..(n - 1) :
                    /\ ents[m].label = "ORG_SECUNDARIA"
                    /\ \A x \in (m + 1)..(n - 1) : ents[x].label # "ORG"}
    IN IF subs = {} THEN NoSpan ELSE ents[CHOOSE m \in subs : \A x \in subs : x <= m]

\* the relations emitted for an entity
RelsOf(ent) == SelectSeq(relations, LAMBDA r : r.tail = ent)

CompanyLevel(ent) == HasContrato(SpanText(text, ent))

\* C12: for each DOC span, if current_sub is set and the DOC text is company
\* level, exactly one HAS_DOCUMENT(current_sub, doc) is emitted; otherwise, if
\* current_org is set, exactly one SECTION_ITEM(current_org, doc); otherwise
\* none: a DOC never gets both relations.
C12_DocRelation ==
    \A n \in 1..rel_i :
        ents[n].label = "DOC" =>
            RelsOf(ents[n]) =
                IF SubBefore(n) # NoSpan /\ CompanyLevel(ents[n])
                THEN <<MkRel("HAS_DOCUMENT", SubBefore(n), ents[n])>>
                ELSE IF OrgBefore(n) # NoSpan
                THEN <<MkRel("SECTION_ITEM", OrgBefore(n), ents[n])>>
                ELSE <<>>

\* a company-level DOC under a sub-organization, and a plain DOC under the same
\* sub-organization, have both been linked
C12_Witness ==
    /\ pc = "split"
    /\ \E a, b \in 1..Len(ents) :
          /\ ents[a].label = "DOC" /\ ents[b].label = "DOC"
          /\ SubBefore(a) # NoSpan /\ SubBefore(b) # NoSpan /\ OrgBefore(b) # NoSpan
          /\ CompanyLevel(ents[a]) /\ ~CompanyLevel(ents[b])
          /\ \E r \in 1..Len(relations) :
                relations[r] = MkRel("HAS_DOCUMENT", SubBefore(a), ents[a])
          /\ \E r \in 1..Len(relations) :
                relations[r] = MkRel("SECTION_ITEM", OrgBefore(b), ents[b])

\* C13: for each ORG_SECUNDARIA span, CONTAINS(current_org, span) is emitted if
\* and only if an ORG has been seen earlier in the pass, and the span becomes
\* current_sub in both cases.
C13_Contains ==
    /\ \A n \in 1..rel_i :
          ents[n].label = "ORG_SECUNDARIA" =>
              RelsOf(ents[n]) =
                  IF \E m \in 1..(n - 1) : ents[m].label = "ORG"
                  THEN <<MkRel("CONTAINS", OrgBefore(n), ents[n])>>
                  ELSE <<>>
    /\ (rel_i >= 1 /\ ents[rel_i].label = "ORG_SECUNDARIA") => current_sub = ents[rel_i]

\* an ORG_SECUNDARIA before any ORG has become current_sub without a relation,
\* and a later one under an ORG has got its CONTAINS
C13_Witness ==
    /\ rel_i >= 3
    /\ ents[1].label = "ORG_SECUNDARIA" /\ RelsOf(ents[1]) = <<>>
    /\ ents[rel_i].label = "ORG_SECUNDARIA"
    /\ OrgBefore(rel_i) # NoSpan
    /\ RelsOf(ents[rel_i]) # <<>>
    /\ current_sub = ents[rel_i]

\* the entities that follow a new ORG with no ORG_SECUNDARIA in between
AfterNewOrg == {n \in 1..rel_i : OrgBefore(n) # NoSpan /\ SubBefore(n) = NoSpan}

\* C14: every ORG span resets current_sub: a company-level DOC that follows a new
\* ORG with no ORG_SECUNDARIA in between is linked by SECTION_ITEM to that ORG
\* and never by HAS_DOCUMENT to a sub-organization of an earlier ORG.
C14_SubReset ==
    /\ (rel_i >= 1 /\ ents[rel_i].label = "ORG") =>
          (current_org = ents[rel_i] /\ current_sub = NoSpan)
    /\ \A n \in AfterNewOrg :
          (ents[n].label = "DOC" /\ CompanyLevel(ents[n])) =>
              /\ RelsOf(ents[n]) = <<MkRel("SECTION_ITEM", OrgBefore(n), ents[n])>>
              /\ \A r \in 1..Len(relations) :
                    relations[r].relation = "HAS_DOCUMENT" => relations[r].tail # ents[n]

\* an ORG with a sub-organization, then a new ORG followed at once by a
\* company-level DOC
C14_Witness ==
    /\ rel_i = 4
    /\ ents[1].label = "ORG" /\ ents[2].label = "ORG_SECUNDARIA"
    /\ ents[3].label = "ORG"
    /\ ents[4].label = "DOC" /\ CompanyLevel(ents[4])
    /\ 4 \in AfterNewOrg

\* the 0-based index of the line that starts, and of the line that ends, at an
\* offset (None when there is none)
LineStartingAt(off) ==
    IF \E l \in 0..(NLines - 1) : lines[l + 1].start = off
    THEN CHOOSE l \in 0..(NLines - 1) : lines[l + 1].start = off
    ELSE None

LineEndingAt(off) ==
    IF \E l \in 0..(NLines - 1) : lines[l + 1].end = off
    THEN CHOOSE l \in 0..(NLines - 1) : lines[l + 1].end = off
    ELSE None

AtLoopStart == pc = "segment" /\ state # "IN_ORG" /\ i < NLines

\* C16: the state starts as OUTSIDE, stays OUTSIDE until the first
\* header-starter line, is IN_SECTION at the start of every loop iteration after
\* the first header, never returns to OUTSIDE, and no ORG_SECUNDARIA span is
\* emitted while it is OUTSIDE.
C16_StateOrder ==
    /\ state = "OUTSIDE"
    /\ [][/\ (state = "OUTSIDE" => state' \in {"OUTSIDE", "IN_ORG"})
          /\ (state = "IN_ORG" => state' \in {"IN_ORG", "IN_SECTION"})
          /\ (state = "IN_SECTION" => state' \in {"IN_SECTION", "IN_ORG"})
          /\ ((state = "OUTSIDE" /\ AtLoopStart) =>
                 (state' = "OUTSIDE" <=> ~starts_with_header_starter(Ln(i))))
          /\ (state = "OUTSIDE" =>
                 \A n \in (Len(spans) + 1)..Len(spans') :
                    spans'[n].label # "ORG_SECUNDARIA")]_vars

\* a DOC line was read in OUTSIDE, a first header was closed, and a second
\* header was met in IN_SECTION
C16_Witness ==
    /\ pc = "done"
    /\ state = "IN_SECTION"
    /\ \E n \in 1..Len(trace) : trace[n].st = "OUTSIDE" /\ trace[n].act = "doc"
    /\ \E n \in 1..Len(trace) : trace[n].st = "IN_SECTION" /\ trace[n].act = "header"

\* the lines at which the main loop promoted: an ORG_SECUNDARIA span starts there
PromotedLines ==
    {l \in 0..(NLines - 1) :
        \E n \in 1..Len(spans) :
            spans[n].label = "ORG_SECUNDARIA" /\ spans[n].start = lines[l + 1].start}

\* the lines the main loop has examined, and the line it examines after line l
ExaminedLines == {trace[n].line : n \in 1..Len(trace)}

NextExamined(l) ==
    LET later == {m \in ExaminedLines : m > l}
    IN IF later = {} THEN (IF state = "IN_ORG" THEN j ELSE i)
       ELSE CHOOSE m \in later : \A x \in later : m <= x

\* the claim's condition for the merge of the line after l
MergeCondition(l) ==
    /\ l + 1 < NLines
    /\ ~is_blank(Ln(l + 1))
    /\ ~starts_with_header_starter(Ln(l + 1))
    /\ ~is_doc_label_line(Ln(l + 1))

RECURSIVE AssignAll(_, _, _)
AssignAll(bp, n, cur) ==
    IF n > Len(bp) THEN <<>>
    ELSE LET chosen == ChooseOrg(bp[n], cur)
         IN <<chosen>> \o AssignAll(bp, n + 1, IF chosen # NoCand THEN chosen.en ELSE cur)

\* the roster without the organizations that were skipped
AnchoredOnly == SelectSeq(assigned_orgs, LAMBDA e : e.assigned # NoCand)

\* C18: an organization with no candidate at or after the cursor is skipped: the
\* cursor keeps its value, the organization emits no BodyItem, and the later
\* organizations are anchored as if the skipped one were not in the roster.
C18_SkippedOrg ==
    /\ [](/\ \A s \in 1..Len(sections) :
                assigned_orgs[sections[s].roster].assigned # NoCand
          /\ \A n \in 1..Len(body_items) :
                \E m \in AnchoredIdx :
                   /\ assigned_orgs[m].assigned.st = body_items[n].org_start
                   /\ assigned_orgs[m].assigned.en = body_items[n].org_end
          /\ (pc \in {"section", "done"} =>
                AssignAll(AnchoredOnly, 1, BodyCut)
                   = [n \in 1..Len(AnchoredOnly) |-> AnchoredOnly[n].assigned]))
    /\ [][(/\ Len(assigned_orgs') = Len(assigned_orgs) + 1
           /\ assigned_orgs'[Len(assigned_orgs')].assigned = NoCand)
          => (cursor' = cursor /\ body_items' = body_items)]_vars

\* the first organization was skipped although it occurs in the roster with a
\* document, and the second one was anchored and sliced
C18_Witness ==
    /\ pc = "done"
    /\ Len(assigned_orgs) = 2
    /\ assigned_orgs[1].assigned = NoCand
    /\ assigned_orgs[1].docs # <<>>
    /\ assigned_orgs[2].assigned # NoCand
    /\ body_items # <<>>

\* C19: every document anchor of an anchored organization starts in
\* [org_end, section_end); the anchors follow the roster document order, and
\* each starts at or after the end of the one before, so the starts strictly
\* increase.
C19_DocAnchors ==
    \A s \in 1..Len(sections) :
        LET sec == sections[s]
            rd == RosterDocs(sec)
        IN /\ \A n \in 1..Len(sec.docs) :
                 sec.org.en <= sec.docs[n].st /\ sec.docs[n].st < sec.section_end
           /\ \A n \in 1..(Len(sec.docs) - 1) :
                 /\ sec.docs[n].en <= sec.docs[n + 1].st
                 /\ sec.docs[n].st < sec.docs[n + 1].st
           /\ \E f \in [1..Len(sec.docs) -> 1..Len(rd)] :
                 /\ \A n \in 1..(Len(sec.docs) - 1) : f[n] < f[n + 1]
                 /\ \A n \in 1..Len(sec.docs) :
                       \E h \in 1..Len(Get(doc_cands, rd[f[n]])) :
                          Get(doc_cands, rd[f[n]])[h] = sec.docs[n]

\* two document anchors were assigned although an occurrence of a roster
\* document lies before the organization
C19_Witness ==
    /\ pc = "done"
    /\ \E s \in 1..Len(sections) :
          /\ Len(sections[s].docs) >= 2
          /\ \E n \in 1..Len(RosterDocs(sections[s])) :
                \E h \in 1..Len(Get(doc_cands, RosterDocs(sections[s])[n])) :
                   Get(doc_cands, RosterDocs(sections[s])[n])[h].st < sections[s].org.st

\* the start of the next anchored organization after roster entry m, or the end
\* of the text
NextAnchoredStart(m) ==
    LET later == {x \in AnchoredIdx : x > m}
    IN IF later = {} THEN Len(text)
       ELSE assigned_orgs[CHOOSE x \in later : \A y \in later : x <= y].assigned.st

\* C20: the section_end of an anchored organization is the start of the next
\* anchored organization in roster order, or the end of the text when none
\* follows, also when that next organization has no document anchor and emits
\* no BodyItem.
C20_SectionEnd ==
    \A s \in 1..Len(sections) :
        /\ sections[s].section_end = NextAnchoredStart(sections[s].roster)
        /\ Len(sections[s].docs) >= 1 =>
              ItemsOf(sections[s])[Len(sections[s].docs)].slice_end
                 = NextAnchoredStart(sections[s].roster)

\* an organization with a document is followed by an anchored organization that
\* has no document anchor
C20_Witness ==
    /\ pc = "done"
    /\ Len(sections) = 2
    /\ Len(sections[1].docs) >= 1
    /\ sections[2].docs = <<>>
    /\ sections[1].section_end = sections[2].org.st
    /\ Len(body_items) = Len(sections[1].docs)

\* C21: the offset map of the buffer normalizer has one entry per character of
\* the normalized buffer, its entries strictly increase, and each entry is an
\* index of the source text, for every source text.
C21_OffsetMap ==
    npc = "done" =>
        /\ Len(idx_map) = Len(Concat(out_chars))
        /\ \A n \in 1..(Len(idx_map) - 1) : idx_map[n] < idx_map[n + 1]
        /\ \A n \in 1..Len(idx_map) : idx_map[n] \in 0..(Len(n_text) - 1)

\* C22: for every string p the output of the buffer normalizer for p, trimmed
\* of edge whitespace and edge punctuation, is the output of the phrase
\* normalizer for p.
C22_SameRules ==
    npc = "done" =>
        Strip(Concat(out_chars), EdgePunct) = _normalize_for_match(n_text)

\* the name of an ORG span without diacritics, in upper case and without
\* trailing punctuation
CanonicalName(e) ==
    LET ws == WordsOf(SpanText(text, e))
    IN [n \in 1..Len(ws) |->
           IF n = Len(ws) THEN StripPunct(Upper(AsciiFold(ws[n])))
           ELSE Upper(AsciiFold(ws[n]))]

\* the ORG spans whose name, up to diacritics, letter case and trailing
\* punctuation, is the name of an earlier ORG span
SameNameOrgs ==
    {n \in 1..Len(OrgEnts) :
        \E m \in 1..(n - 1) : CanonicalName(OrgEnts[m]) = CanonicalName(OrgEnts[n])}

\* C23: two ORG spans whose texts differ only in diacritics, letter case,
\* whitespace runs or trailing punctuation have the same split-point key, and
\* the first span with the name of an earlier one is the split point.
C23_SplitKey ==
    AfterSplit =>
        /\ \A m, n \in 1..Len(OrgEnts) :
              CanonicalName(OrgEnts[m]) = CanonicalName(OrgEnts[n])
                 => OrgKey(OrgEnts[m]) = OrgKey(OrgEnts[n])
        /\ SameNameOrgs # {} =>
              cut = OrgEnts[CHOOSE n \in SameNameOrgs : \A m \in SameNameOrgs : n <= m].start

\* the spans with a label that start before an offset
StartingBefore(label, off) ==
    {n \in 1..Len(ents) : ents[n].label = label /\ ents[n].start < off}

\* the one of a set of spans that starts last
LastOf(ns) == ents[CHOOSE n \in ns : \A m \in ns : ents[m].start <= ents[n].start]

\* C24: the head of a CONTAINS or SECTION_ITEM relation is the last ORG span
\* that starts before the tail; the head of a HAS_DOCUMENT relation is the last
\* ORG_SECUNDARIA span before the tail, with no ORG span between them; the head
\* starts before the tail, and a span is the tail of at most one relation.
C24_NearestHead ==
    /\ \A r \in 1..Len(relations) :
          LET rel == relations[r]
              orgs == StartingBefore("ORG", rel.tail.start)
              subs == StartingBefore("ORG_SECUNDARIA", rel.tail.start)
          IN /\ rel.head.start < rel.tail.start
             /\ rel.relation \in {"CONTAINS", "SECTION_ITEM"} =>
                   (orgs # {} /\ rel.head = LastOf(orgs))
             /\ rel.relation = "HAS_DOCUMENT" =>
                   /\ subs # {} /\ rel.head = LastOf(subs)
                   /\ \A n \in orgs : ents[n].start < rel.head.start
    /\ \A r1, r2 \in 1..Len(relations) :
          relations[r1].tail = relations[r2].tail => r1 = r2

\* the second ORG of a document contains a sub-organization that has a
\* company-level document
C24_Witness ==
    /\ pc = "split"
    /\ \E r1, r2 \in 1..Len(relations) :
          /\ relations[r1].relation = "CONTAINS"
          /\ StartingBefore("ORG", relations[r1].head.start) # {}
          /\ relations[r2].relation = "HAS_DOCUMENT"
          /\ relations[r2].head = relations[r1].tail

\* the lines consumed by the iterations trace[1..n] that have ended
RECURSIVE Consumed(_)
Consumed(n) == IF n = 0 THEN 0 ELSE Consumed(n - 1) + trace[n].adv

\* the iterations of the main loop that have ended
EndedIterations == IF state = "IN_ORG" THEN Len(trace) - 1 ELSE Len(trace)

\* C25: every iteration of the main loop moves the line index forward: by the
\* number of header lines on a header, by 2 on a merged secondary organization,
\* by 1 otherwise; every line is consumed by exactly one iteration; the loop
\* ends, with the index equal to the number of lines.
C25_Termination ==
    /\ [](/\ i <= NLines
          /\ \A n \in 1..Len(trace) : trace[n].line = Consumed(n - 1)
          /\ i = Consumed(EndedIterations)
          /\ (pc # "segment" => i = NLines))
    /\ [][i' # i =>
             i' - i = IF state = "IN_ORG" THEN j - i
                      ELSE IF state = "IN_SECTION" /\ i \in PromotedLines' /\ MergeCondition(i)
                      THEN 2
                      ELSE 1]_vars
    /\ [][(state = "IN_ORG" /\ i' # i) => j - i \in 1..max_header_lines]_vars
    /\ <>(i = NLines /\ state # "IN_ORG")

\* a run with a header of two lines, a merged secondary organization and a
\* plain line has ended
C25_Witness ==
    /\ pc = "relations"
    /\ i = NLines
    /\ \E n \in 1..Len(trace) : trace[n].act = "header" /\ trace[n].adv = 2
    /\ \E n \in 1..Len(trace) : trace[n].act = "merged" /\ trace[n].adv = 2

\* C26: the slices of the BodyItems are ordered and do not overlap, also across
\* organizations: an item's slice ends at or before the start of the slice of
\* every later item.
C26_SlicesOrdered ==
    /\ \A n \in 1..Len(body_items) :
          body_items[n].slice_start <= body_items[n].slice_end
    /\ \A a, b \in 1..Len(body_items) :
          a < b => body_items[a].slice_end <= body_items[b].slice_start

\* two organizations were sliced, with text of the body left between the first
\* organization's last slice and nothing shared with the second one's first
C26_Witness ==
    /\ pc = "done"
    /\ \E n \in 1..(Len(body_items) - 1) :
          /\ body_items[n].org_start # body_items[n + 1].org_start
          /\ body_items[n].slice_end = body_items[n + 1].org_start
          /\ body_items[n].slice_end - body_items[n].slice_start >= 2

\* C27: every BodyItem contains its own document title: slice_start <= doc_start
\* and doc_end <= slice_end, the last item of a section included.
C27_TitleInSlice ==
    \A n \in 1..Len(body_items) :
        /\ body_items[n].slice_start <= body_items[n].doc_start
        /\ body_items[n].doc_end <= body_items[n].slice_end

\* C28: no relation crosses the split point: head and tail of every relation
\* start on the same side of the cut; the summary keeps exactly the relations
\* before the cut, each with its head and its tail among the summary entities,
\* and no tail of the roster has an empty text.
C28_NoCrossing ==
    AfterSplit =>
        /\ \A r \in 1..Len(relations) :
              (relations[r].head.start < cut) <=> (relations[r].tail.start < cut)
        /\ sumario.relations = SelectSeq(relations, LAMBDA r : r.tail.start < cut)
        /\ \A r \in 1..Len(sumario.relations) :
              /\ \E n \in 1..Len(sumario.ents) : sumario.ents[n] = sumario.relations[r].head
              /\ \E n \in 1..Len(sumario.ents) : sumario.ents[n] = sumario.relations[r].tail
        /\ \A n \in 1..Len(blueprint) :
              /\ \A m \in 1..Len(blueprint[n].docs) : blueprint[n].docs[m] # <<>>
              /\ \A m \in 1..Len(blueprint[n].suborgs) : blueprint[n].suborgs[m] # <<>>

\* the document was cut in its middle, with a relation on either side of the
\* cut, and the roster has a document
C28_Witness ==
    /\ pc = "done"
    /\ cut < Len(text)
    /\ \E r \in 1..Len(relations) : relations[r].tail.start < cut
    /\ \E r \in 1..Len(relations) : relations[r].head.start >= cut
    /\ \E n \in 1..Len(blueprint) : blueprint[n].docs # <<>>

\* the ORG spans of the summary in document order: roster entry n is made from
\* the n-th of them
SummaryOrgs == SelectSeq(SortByStart(sumario.ents), LAMBDA e : e.label = "ORG")

\* the SECTION_ITEM relations of the summary with the n-th summary ORG as head
SectionItemsOf(n) ==
    SelectSeq(sumario.relations, LAMBDA r :
        r.relation = "SECTION_ITEM" /\ r.head = SummaryOrgs[n])

\* the DOC spans of the summary under the n-th summary ORG
DocsUnder(n) ==
    {d \in 1..Len(sumario.ents) :
        /\ sumario.ents[d].label = "DOC"
        /\ sumario.ents[d].start > SummaryOrgs[n].start
        /\ (n < Len(SummaryOrgs) => sumario.ents[d].start < SummaryOrgs[n + 1].start)}

AllCompanyLevel(n) == \A d \in DocsUnder(n) : CompanyLevel(sumario.ents[d])

AllHasDocument(n) ==
    \A d \in DocsUnder(n) :
        \E r \in 1..Len(sumario.relations) :
            /\ sumario.relations[r].relation = "HAS_DOCUMENT"
            /\ sumario.relations[r].tail = sumario.ents[d]

AfterBlueprint == pc \in {"gather", "assign", "section", "done"}

\* the roster documents are the tails of the SECTION_ITEM relations of the
\* organization, and every document anchor is an occurrence of one of them
RosterFromSectionItems ==
    /\ Len(blueprint) = Len(SummaryOrgs)
    /\ \A n \in 1..Len(blueprint) :
          blueprint[n].docs =
              [m \in 1..Len(SectionItemsOf(n)) |->
                  SpanText(text, SectionItemsOf(n)[m].tail)]
    /\ \A s \in 1..Len(sections) :
          \A a \in 1..Len(sections[s].docs) :
              \E m \in 1..Len(SectionItemsOf(sections[s].roster)) :
                 _normalize_for_match_atoms(
                     Slice(text, sections[s].docs[a].st, sections[s].docs[a].en))
                 = _normalize_for_match_atoms(
                       SpanText(text, SectionItemsOf(sections[s].roster)[m].tail))

\* C29 as stated: the roster documents of an organization are the DOCs linked
\* to it by SECTION_ITEM, and an organization whose summary documents are all
\* company-level has no document anchor and no BodyItem.
C29_Original ==
    AfterBlueprint =>
        /\ RosterFromSectionItems
        /\ \A s \in 1..Len(sections) :
              AllCompanyLevel(sections[s].roster) =>
                 (sections[s].docs = <<>> /\ ItemsOf(sections[s]) = <<>>)

\* C29: the roster documents of an organization are the DOCs linked to it by
\* SECTION_ITEM, and an organization whose summary documents are all linked by
\* HAS_DOCUMENT to a sub-organization has no document anchor and no BodyItem,
\* also when it is anchored in the body.
C29_RosterDocs ==
    AfterBlueprint =>
        /\ RosterFromSectionItems
        /\ \A s \in 1..Len(sections) :
              AllHasDocument(sections[s].roster) =>
                 (sections[s].docs = <<>> /\ ItemsOf(sections[s]) = <<>>)

\* an organization whose one summary document belongs to a sub-organization is
\* anchored in the body and has no BodyItem
C29_Witness ==
    /\ pc = "done"
    /\ body_items = <<>>
    /\ \E s \in 1..Len(sections) :
          /\ DocsUnder(sections[s].roster) # {}
          /\ AllHasDocument(sections[s].roster)

\* the spans of the segmenter that are no ORG and start after the first ORG
AfterFirstOrg ==
    {n \in 1..Len(ents) :
        /\ ents[n].label # "ORG"
        /\ \E m \in 1..Len(ents) : ents[m].label = "ORG" /\ ents[m].start < ents[n].start}

RelationsBuilt == pc \notin {"segment", "relations"}

\* C30: of the spans of the segmenter, every ORG_SECUNDARIA and every DOC that
\* starts after the first ORG is the tail of exactly one relation, every DOC
\* before the first ORG is the tail of none, and there are as many relations as
\* non-ORG spans after the first ORG.
C30_EveryTailLinked ==
    RelationsBuilt =>
        /\ \A n \in 1..Len(ents) :
              Len(RelsOf(ents[n])) = IF n \in AfterFirstOrg THEN 1 ELSE 0
        /\ Len(relations) = Cardinality(AfterFirstOrg)

\* a DOC before the first ORG, and a sub-organization with a plain DOC after it
C30_Witness ==
    /\ pc = "done"
    /\ \E n \in 1..Len(ents) : ents[n].label = "DOC" /\ n \notin AfterFirstOrg
    /\ \E a, b \in AfterFirstOrg :
          /\ ents[a].label = "ORG_SECUNDARIA" /\ ents[b].label = "DOC"
          /\ ents[a].start < ents[b].start
          /\ ~CompanyLevel(ents[b])
    /\ Len(relations) = 2

====
